---- MODULE Spec2Model ----
(***************************************************************************)
(* Contact panel of src/routes/chats/UserSelect.svelte: the derived status *)
(* of a contact, the filter predicate and the sort comparator behind the   *)
(* reactive declaration filteredAndSortedUsers, and the component's state  *)
(* (users, overlay maps, filters, poll timer, loads in flight).            *)
(*                                                                         *)
(* Text is a sequence of one-character strings.  An absent (undefined or   *)
(* null) text field is the empty sequence: every use of these fields in    *)
(* the source (the || chains, filter(Boolean)) treats "" and undefined     *)
(* alike.  A tri-state boolean column is "true", "false" or "undefined".   *)
(* An absent lastMessageTime is NoTime.                                    *)
(*                                                                         *)
(* The second component of the file, the analytics panel, has its own      *)
(* state: the snapshot analytics, the connection indicator, the poll timer *)
(* and the realtime subscription, with the table messages of the backend,  *)
(* the loadAnalytics calls in flight and the notifications on their way.   *)
(* The two components share no state; a specification of one leaves the    *)
(* other as constructed.  Times of message events are minutes; an average  *)
(* response time is kept in tenths of a minute.                            *)
(***************************************************************************)
EXTENDS Integers, Sequences, FiniteSets, TLC

VARIABLES
    users,                  \* let users: UserWithMessages[]
    unreadMessages,         \* export let unreadMessages: Record<string, number>
    lastMessageTimes,       \* export let lastMessageTimes: Record<string, Date>
    activePlatform,         \* export let activePlatform
    activeStatus,           \* export let activeStatus
    searchQuery,            \* export let searchQuery
    selectedUserId,         \* export let selectedUserId
    isLoading,              \* let isLoading
    error,                  \* let error
    refreshInterval,        \* let refreshInterval (a timer handle or null)
    filteredAndSortedUsers, \* $: filteredAndSortedUsers
    loads,                  \* loadUsers calls awaiting getFilteredUsers
    gradientCache,          \* const gradientCache = new Map()
    phase,                  \* lifecycle of the component
    clientId,               \* export let clientId
    onUserSelect,           \* export let onUserSelect: its last argument
    requested,              \* argument of the last getFilteredUsers call
    autoRefreshPaused       \* the host's last call was pauseAutoRefresh

\* The analytics panel (second script of the file)
VARIABLES
    analytics,              \* let analytics: the displayed snapshot
    isConnected,            \* let isConnected
    lastUpdate,             \* let lastUpdate
    updateInterval,         \* let updateInterval (a timer handle or null)
    realtimeSubscription,   \* let realtimeSubscription
    analyticsClientId,      \* let clientId of the analytics panel
    messages,               \* the table messages of the backend
    nextId,                 \* the id the backend gives the next message
    changes,                \* number of changes made to the table so far
    analyticsLoads,         \* loadAnalytics calls in flight
    recomputeTimeouts,      \* pending setTimeout(loadAnalytics, 2000)
    channel,                \* realtime notifications not yet delivered
    realtimeLog,            \* "Real-time update:" lines on the console
    analyticsPhase          \* lifecycle of the analytics panel

contactVars == <<users, unreadMessages, lastMessageTimes, activePlatform,
                 activeStatus, searchQuery, selectedUserId, isLoading, error,
                 refreshInterval, filteredAndSortedUsers, loads, phase,
                 clientId, onUserSelect, requested, autoRefreshPaused,
                 gradientCache>>

analyticsVars == <<analytics, isConnected, lastUpdate, updateInterval,
                   realtimeSubscription, analyticsClientId, messages, nextId,
                   changes, analyticsLoads, recomputeTimeouts, channel,
                   realtimeLog, analyticsPhase>>

vars == <<contactVars, analyticsVars>>

----------------------------------------------------------------------------
(* Bounds *)

MaxUnread == 1
MaxTime == 2
MaxLoads == 2

----------------------------------------------------------------------------
(* Values *)

Null == "null"
NoTime == 0 - 1
TriState == {"true", "false", "undefined"}
Times == 1..MaxTime
Unreads == 0..MaxUnread
UserIds == {"1", "2"}
Undefined == "undefined"
ClientIds == {"c1", "c2"}
LoadKinds == {"mount", "other"}

Range(s) == {s[i] : i \in 1..Len(s)}

\* let analytics = {...} as declared
EmptySnapshot ==
    [avgResponseTime |-> 0, completionRate |-> 0, totalChats |-> 0,
     uniqueUsers |-> 0, recentActivity |-> <<>>]

\* The state of the analytics panel as declared (lines 704-726)
AnalyticsDeclared ==
    /\ analytics = EmptySnapshot
    /\ isConnected = TRUE
    /\ lastUpdate = "--:--"
    /\ updateInterval = Null
    /\ realtimeSubscription = Null
    /\ analyticsClientId = Null
    /\ analyticsLoads = <<>>
    /\ recomputeTimeouts = 0
    /\ channel = <<>>
    /\ realtimeLog = 0
    /\ analyticsPhase = "created"

\* The analytics panel as constructed, on a backend without messages
AnalyticsCreated ==
    /\ AnalyticsDeclared
    /\ messages = {}
    /\ nextId = 1
    /\ changes = 0

statusConfig == {"online", "offline", "human-required", "no-info"}

platformMapping ==
    ("WhatsApp" :> {"WhatsApp", "whatsapp", "WHATSAPP"})
        @@ ("Telegram" :> {"Telegram", "telegram", "TELEGRAM"})
        @@ ("Instagram" :> {"Instagram", "instagram", "INSTAGRAM"})

statusMapping ==
    ("Online" :> "online") @@ ("Offline" :> "offline")
        @@ ("Human Required" :> "human-required")

PlatformFilters == {"WhatsApp", "Telegram", "Instagram"}
StatusFilters == {"Online", "Offline", "Human Required"}

----------------------------------------------------------------------------
(* Text *)

ToLowerChar(c) ==
    CASE c = "A" -> "a"
      [] c = "B" -> "b"
      [] c = "N" -> "n"
      [] OTHER -> c

toLowerCase(s) == [i \in 1..Len(s) |-> ToLowerChar(s[i])]

RECURSIVE trimStart(_)
trimStart(s) ==
    IF s # <<>> /\ Head(s) = " " THEN trimStart(Tail(s)) ELSE s

RECURSIVE trimEnd(_)
trimEnd(s) ==
    IF s # <<>> /\ s[Len(s)] = " "
    THEN trimEnd(SubSeq(s, 1, Len(s) - 1)) ELSE s

trim(s) == trimEnd(trimStart(s))

\* Array.prototype.filter(Boolean) on an array of text fields
RECURSIVE filterBoolean(_)
filterBoolean(fields) ==
    IF fields = <<>> THEN <<>>
    ELSE IF Head(fields) # <<>>
         THEN <<Head(fields)>> \o filterBoolean(Tail(fields))
         ELSE filterBoolean(Tail(fields))

\* Array.prototype.join(" ")
RECURSIVE join(_)
join(fields) ==
    IF fields = <<>> THEN <<>>
    ELSE IF Len(fields) = 1 THEN Head(fields)
         ELSE Head(fields) \o <<" ">> \o join(Tail(fields))

startsWith(t, q) ==
    /\ Len(q) <= Len(t)
    /\ SubSeq(t, 1, Len(q)) = q

\* String.prototype.includes
RECURSIVE includes(_, _)
includes(t, q) ==
    IF startsWith(t, q) THEN TRUE
    ELSE IF t = <<>> THEN FALSE
         ELSE includes(Tail(t), q)

\* String.prototype.localeCompare under the root collation: the letters
\* decide first, ignoring case (a shorter prefix sorts first); between texts
\* that differ in case only, lower case sorts first.
PrimaryRank(c) ==
    CASE c = " " -> 0
      [] ToLowerChar(c) = "a" -> 1
      [] ToLowerChar(c) = "b" -> 2
      [] ToLowerChar(c) = "n" -> 3
      [] OTHER -> 4

TertiaryRank(c) == IF ToLowerChar(c) = c THEN 0 ELSE 1

RECURSIVE LexCompare(_, _)
LexCompare(x, y) ==
    IF x = <<>> /\ y = <<>> THEN 0
    ELSE IF x = <<>> THEN 0 - 1
    ELSE IF y = <<>> THEN 1
    ELSE IF Head(x) < Head(y) THEN 0 - 1
    ELSE IF Head(x) > Head(y) THEN 1
    ELSE LexCompare(Tail(x), Tail(y))

localeCompare(x, y) ==
    LET p == LexCompare([i \in 1..Len(x) |-> PrimaryRank(x[i])],
                        [i \in 1..Len(y) |-> PrimaryRank(y[i])])
    IN  IF p # 0 THEN p
        ELSE LexCompare([i \in 1..Len(x) |-> TertiaryRank(x[i])],
                        [i \in 1..Len(y) |-> TertiaryRank(y[i])])

----------------------------------------------------------------------------
(* Derived status *)

\* Variant: the automation flag is looked at before human_required.
getUserStatusAlaraFirst(user) ==
    IF user.alara_status = "true" THEN "online"
    ELSE IF user.alara_status = "false" THEN "offline"
    ELSE IF user.human_required = "true" THEN "human-required"
    ELSE "no-info"

getUserStatus(user) ==
    IF user.human_required = "true" THEN "human-required"
    ELSE IF user.alara_status = "true" THEN "online"
    ELSE IF user.alara_status = "false" THEN "offline"
    ELSE "no-info"

----------------------------------------------------------------------------
(* Sort *)

displayName(user) ==
    IF user.nickname # <<>> THEN user.nickname
    ELSE IF user.name # <<>> THEN user.name
    ELSE user.username

\* Variant: unread counts of human-required contacts in ascending order.
compareHumanRequiredAscending(a, b) ==
    LET aUnread == a.unreadCount
        bUnread == b.unreadCount
    IN  IF aUnread > 0 /\ bUnread = 0 THEN 0 - 1
        ELSE IF bUnread > 0 /\ aUnread = 0 THEN 1
        ELSE IF aUnread > 0 /\ bUnread > 0 THEN aUnread - bUnread
        ELSE IF a.lastMessageTime # NoTime /\ b.lastMessageTime # NoTime
             THEN b.lastMessageTime - a.lastMessageTime
        ELSE IF a.lastMessageTime # NoTime /\ b.lastMessageTime = NoTime
             THEN 0 - 1
        ELSE IF a.lastMessageTime = NoTime /\ b.lastMessageTime # NoTime
             THEN 1
        ELSE localeCompare(displayName(a), displayName(b))

\* sortUsers, lines 224-246: both contacts are human-required
compareHumanRequired(a, b) ==
    LET aUnread == a.unreadCount
        bUnread == b.unreadCount
    IN  IF aUnread > 0 /\ bUnread = 0 THEN 0 - 1
        ELSE IF bUnread > 0 /\ aUnread = 0 THEN 1
        ELSE IF aUnread > 0 /\ bUnread > 0 THEN bUnread - aUnread
        ELSE IF a.lastMessageTime # NoTime /\ b.lastMessageTime # NoTime
             THEN b.lastMessageTime - a.lastMessageTime
        ELSE IF a.lastMessageTime # NoTime /\ b.lastMessageTime = NoTime
             THEN 0 - 1
        ELSE IF a.lastMessageTime = NoTime /\ b.lastMessageTime # NoTime
             THEN 1
        ELSE localeCompare(displayName(a), displayName(b))

\* Variant: the mirror test "b has unread, a has none" is missing.
compareOthersOneSided(a, b) ==
    LET aUnread == a.unreadCount
        bUnread == b.unreadCount
    IN  IF aUnread > 0 /\ bUnread = 0 THEN 0 - 1
        ELSE IF aUnread > 0 /\ bUnread > 0 THEN bUnread - aUnread
        ELSE IF a.lastMessageTime # NoTime /\ b.lastMessageTime # NoTime
             THEN b.lastMessageTime - a.lastMessageTime
        ELSE IF a.lastMessageTime # NoTime /\ b.lastMessageTime = NoTime
             THEN 0 - 1
        ELSE IF a.lastMessageTime = NoTime /\ b.lastMessageTime # NoTime
             THEN 1
        ELSE localeCompare(displayName(a), displayName(b))

\* sortUsers, lines 248-272: neither contact is human-required
compareOthers(a, b) ==
    LET aUnread == a.unreadCount
        bUnread == b.unreadCount
    IN  IF aUnread > 0 /\ bUnread = 0 THEN 0 - 1
        ELSE IF bUnread > 0 /\ aUnread = 0 THEN 1
        ELSE IF aUnread > 0 /\ bUnread > 0 THEN bUnread - aUnread
        ELSE IF a.lastMessageTime # NoTime /\ b.lastMessageTime # NoTime
             THEN b.lastMessageTime - a.lastMessageTime
        ELSE IF a.lastMessageTime # NoTime /\ b.lastMessageTime = NoTime
             THEN 0 - 1
        ELSE IF a.lastMessageTime = NoTime /\ b.lastMessageTime # NoTime
             THEN 1
        ELSE localeCompare(displayName(a), displayName(b))

\* Variant: the human-required test is missing.
sortCompareNoPriority(a, b) ==
    LET aUnread == a.unreadCount
        bUnread == b.unreadCount
    IN  IF aUnread > 0 /\ bUnread = 0 THEN 0 - 1
        ELSE IF bUnread > 0 /\ aUnread = 0 THEN 1
        ELSE IF aUnread > 0 /\ bUnread > 0 THEN bUnread - aUnread
        ELSE IF a.lastMessageTime # NoTime /\ b.lastMessageTime # NoTime
             THEN b.lastMessageTime - a.lastMessageTime
        ELSE IF a.lastMessageTime # NoTime /\ b.lastMessageTime = NoTime
             THEN 0 - 1
        ELSE IF a.lastMessageTime = NoTime /\ b.lastMessageTime # NoTime
             THEN 1
        ELSE localeCompare(displayName(a), displayName(b))

\* The comparator passed to Array.prototype.sort
sortCompare(a, b) ==
    LET aHumanRequired == getUserStatus(a) = "human-required"
        bHumanRequired == getUserStatus(b) = "human-required"
    IN  IF aHumanRequired /\ ~bHumanRequired THEN 0 - 1
        ELSE IF ~aHumanRequired /\ bHumanRequired THEN 1
        ELSE IF aHumanRequired /\ bHumanRequired
             THEN compareHumanRequired(a, b)
        ELSE compareOthers(a, b)

\* Array.prototype.sort is stable: an element is placed after every element
\* already placed that does not compare greater than it.
RECURSIVE insertSorted(_, _)
insertSorted(sorted, x) ==
    IF sorted = <<>> THEN <<x>>
    ELSE IF sortCompare(x, sorted[Len(sorted)]) < 0
         THEN insertSorted(SubSeq(sorted, 1, Len(sorted) - 1), x)
                  \o <<sorted[Len(sorted)]>>
         ELSE sorted \o <<x>>

RECURSIVE sortFrom(_, _)
sortFrom(sorted, rest) ==
    IF rest = <<>> THEN sorted
    ELSE sortFrom(insertSorted(sorted, Head(rest)), Tail(rest))

sortUsers(list) == sortFrom(<<>>, list)

----------------------------------------------------------------------------
(* Filter *)

platformMatch(user, platform) ==
    IF platform # Null
    THEN LET possiblePlatforms ==
                 IF platform \in DOMAIN platformMapping
                 THEN platformMapping[platform] ELSE {platform}
         IN  user.platform \in possiblePlatforms
    ELSE TRUE

\* Variant: the filter reads the stored columns, not the derived status.
statusMatchRawColumn(user, status) ==
    IF status # Null
    THEN CASE status = "Online" -> user.alara_status = "true"
           [] status = "Offline" -> user.alara_status = "false"
           [] OTHER -> user.human_required = "true"
    ELSE TRUE

statusMatch(user, status) ==
    IF status # Null
    THEN getUserStatus(user) = statusMapping[status]
    ELSE TRUE

searchableText(user) ==
    toLowerCase(join(filterBoolean(
        <<user.nickname, user.name, user.username, user.phone, user.email>>)))

\* Variant: the query is lower-cased but not trimmed.
searchMatchUntrimmed(user, queryText) ==
    IF trim(queryText) # <<>>
    THEN includes(searchableText(user), toLowerCase(queryText))
    ELSE TRUE

searchMatch(user, queryText) ==
    IF trim(queryText) # <<>>
    THEN includes(searchableText(user), trim(toLowerCase(queryText)))
    ELSE TRUE

userFilter(user, platform, status, queryText) ==
    /\ platformMatch(user, platform)
    /\ statusMatch(user, status)
    /\ searchMatch(user, queryText)

\* Variant: removal in place while iterating forward, which skips the test
\* of the element that follows a removed one.
RECURSIVE filterUsersSplice(_, _, _, _)
filterUsersSplice(list, platform, status, queryText) ==
    IF list = <<>> THEN <<>>
    ELSE IF userFilter(Head(list), platform, status, queryText)
         THEN <<Head(list)>>
                  \o filterUsersSplice(Tail(list), platform, status, queryText)
         ELSE IF Tail(list) = <<>> THEN <<>>
              ELSE <<Head(Tail(list))>>
                       \o filterUsersSplice(Tail(Tail(list)), platform,
                                            status, queryText)

\* Array.prototype.filter with the predicate above
RECURSIVE filterUsers(_, _, _, _)
filterUsers(list, platform, status, queryText) ==
    IF list = <<>> THEN <<>>
    ELSE IF userFilter(Head(list), platform, status, queryText)
         THEN <<Head(list)>>
                  \o filterUsers(Tail(list), platform, status, queryText)
         ELSE filterUsers(Tail(list), platform, status, queryText)

\* $: filteredAndSortedUsers = sortUsers(users.filter(...))
computeFilteredAndSorted(list, platform, status, queryText) ==
    sortUsers(filterUsers(list, platform, status, queryText))

----------------------------------------------------------------------------
(* Overlay merge *)

\* unreadMessages[id] || 0
unreadOf(unread, id) == IF id \in DOMAIN unread THEN unread[id] ELSE 0

\* lastMessageTimes[id]
timeOf(times, id) == IF id \in DOMAIN times THEN times[id] ELSE NoTime

\* loadUsers: the map over loadedUsers
withOverlay(row, unread, times) ==
    LET userWithStatus ==
            [row EXCEPT !.unreadCount = unreadOf(unread, row.id),
                        !.lastMessageTime = timeOf(times, row.id)]
    IN  [userWithStatus EXCEPT !.status = getUserStatus(userWithStatus)]

\* $: if (Object.keys(unreadMessages).length > 0) users = users.map(...)
mergeOverlay(list, unread, times) ==
    IF DOMAIN unread # {}
    THEN [i \in 1..Len(list) |->
             [list[i] EXCEPT
                 !.unreadCount = unreadOf(unread, list[i].id),
                 !.lastMessageTime =
                     IF timeOf(times, list[i].id) # NoTime
                     THEN timeOf(times, list[i].id)
                     ELSE list[i].lastMessageTime]]
    ELSE list

----------------------------------------------------------------------------
(* loadUsers *)

\* A row as getFilteredUsers returns it, before the overlay is applied
Row(id, names, phone, email, platform, alara, human) ==
    [id |-> id, nickname |-> names.nickname, name |-> names.name,
     username |-> names.username, phone |-> phone, email |-> email,
     platform |-> platform, alara_status |-> alara, human_required |-> human,
     unreadCount |-> 0, lastMessageTime |-> NoTime, status |-> "no-info"]

InFlight == loads.mount + loads.other

\* function startRefreshInterval: a running timer is cleared and replaced
startRefreshInterval == refreshInterval' = "timer"

\* function stopRefreshInterval
stopRefreshInterval == refreshInterval' = Null

\* loadUsers up to the await: isLoading is raised only while no timer runs,
\* the error is cleared, and the call waits for getFilteredUsers.
loadUsersStart(kind) ==
    /\ InFlight < MaxLoads
    /\ isLoading' = IF refreshInterval = Null THEN TRUE ELSE isLoading
    /\ error' = Null
    /\ requested' = clientId'
    /\ loads' = [loads EXCEPT ![kind] = @ + 1]

\* loadUsers that puts the rows on display as they were fetched, without
\* reading the overlay maps
LoadResolvedAsFetched(rows) ==
    /\ users' = rows
    /\ filteredAndSortedUsers' =
           computeFilteredAndSorted(users', activePlatform, activeStatus,
                                    searchQuery)
    /\ isLoading' = FALSE

\* The body of loadUsers after the await: the fetched rows replace users,
\* and the reactive declarations run on the new value of users.
LoadResolved(rows) ==
    /\ users' = mergeOverlay(
                    [i \in 1..Len(rows) |->
                        withOverlay(rows[i], unreadMessages, lastMessageTimes)],
                    unreadMessages, lastMessageTimes)
    /\ filteredAndSortedUsers' =
           computeFilteredAndSorted(users', activePlatform, activeStatus,
                                    searchQuery)
    /\ isLoading' = FALSE

\* After the await of onMount (line 139) the timer is started, whether
\* the load succeeded or failed and whatever happened to the component.
afterLoad(kind) ==
    /\ loads[kind] > 0
    /\ loads' = [loads EXCEPT ![kind] = @ - 1]
    /\ IF kind = "mount" THEN startRefreshInterval
       ELSE UNCHANGED refreshInterval

\* loadUsers that drops its rows when another call is still in flight
loadUsersResolveLatestOnly(kind, rows) ==
    /\ afterLoad(kind)
    /\ IF InFlight > 1
       THEN UNCHANGED <<users, filteredAndSortedUsers, isLoading>>
       ELSE LoadResolved(rows)
    /\ UNCHANGED <<unreadMessages, lastMessageTimes, activePlatform,
                   activeStatus, searchQuery, selectedUserId, error, phase,
                   clientId, onUserSelect, requested, autoRefreshPaused>>
    /\ UNCHANGED <<analyticsVars, gradientCache>>

\* A loadUsers call gets its rows from getFilteredUsers
loadUsersResolve(kind, rows) ==
    /\ afterLoad(kind)
    /\ LoadResolved(rows)
    /\ UNCHANGED <<unreadMessages, lastMessageTimes, activePlatform,
                   activeStatus, searchQuery, selectedUserId, error, phase,
                   clientId, onUserSelect, requested, autoRefreshPaused>>
    /\ UNCHANGED <<analyticsVars, gradientCache>>

\* loadUsers with a catch block that throws the error on: the finally block
\* still runs, but the caller's code after the await does not.
loadUsersRejectRethrows(kind) ==
    /\ loads[kind] > 0
    /\ loads' = [loads EXCEPT ![kind] = @ - 1]
    /\ error' = "Failed to load users"
    /\ users' = <<>>
    /\ filteredAndSortedUsers' = <<>>
    /\ isLoading' = FALSE
    /\ UNCHANGED <<unreadMessages, lastMessageTimes, activePlatform,
                   activeStatus, searchQuery, selectedUserId, phase,
                   refreshInterval, clientId, onUserSelect, requested,
                   autoRefreshPaused>>
    /\ UNCHANGED <<analyticsVars, gradientCache>>

\* getFilteredUsers rejects: the catch and finally blocks of loadUsers
loadUsersReject(kind) ==
    /\ afterLoad(kind)
    /\ error' = "Failed to load users"
    /\ users' = <<>>
    /\ filteredAndSortedUsers' = <<>>
    /\ isLoading' = FALSE
    /\ UNCHANGED <<unreadMessages, lastMessageTimes, activePlatform,
                   activeStatus, searchQuery, selectedUserId, phase,
                   clientId, onUserSelect, requested, autoRefreshPaused>>
    /\ UNCHANGED <<analyticsVars, gradientCache>>

----------------------------------------------------------------------------
(* The component *)

\* function updateUserUnreadCount
updateUserUnreadCount(list, userId, count) ==
    [i \in 1..Len(list) |->
        IF list[i].id = userId
        THEN [list[i] EXCEPT !.unreadCount = count] ELSE list[i]]

\* obj[key] = value on a Record<string, ...>
setKey(obj, key, value) ==
    [k \in DOMAIN obj \cup {key} |-> IF k = key THEN value ELSE obj[k]]

\* The reactive declarations that run after users or an overlay map has
\* been assigned: the overlay merge, then filteredAndSortedUsers.
Reactive(list) ==
    /\ users' = mergeOverlay(list, unreadMessages', lastMessageTimes')
    /\ filteredAndSortedUsers' =
           computeFilteredAndSorted(users', activePlatform', activeStatus',
                                    searchQuery')

\* The rows getFilteredUsers can return: the contacts of the tenant in the
\* order of the backend, each with the status columns of the moment.
DirectoryRow(id, human) ==
    Row(id,
        IF id = "1"
        THEN [nickname |-> <<"A", "n">>, name |-> <<>>, username |-> <<>>]
        ELSE [nickname |-> <<>>, name |-> <<"b">>, username |-> <<>>],
        <<>>, <<>>, "WhatsApp", "true", human)

\* The times the host passes to updateUnreadMessages: none, or one instant
PushedTimes == {NoTime, 1}

DirectoryLists ==
    {<<>>,
     <<DirectoryRow("1", "false")>>,
     <<DirectoryRow("1", "false"), DirectoryRow("2", "false")>>,
     <<DirectoryRow("1", "false"), DirectoryRow("2", "true")>>}

\* The state after construction.  The reactive block on clientId has run
\* once: with a clientId given at construction a loadUsers is in flight
\* already before onMount.
Init ==
    /\ users = <<>>
    /\ unreadMessages = <<>>
    /\ lastMessageTimes = <<>>
    /\ activePlatform = Null
    /\ activeStatus = Null
    /\ searchQuery = <<>>
    /\ selectedUserId = Null
    /\ isLoading = TRUE
    /\ error = Null
    /\ refreshInterval = Null
    /\ filteredAndSortedUsers = <<>>
    /\ clientId \in ClientIds \cup {Undefined}
    /\ loads = [mount |-> 0,
                other |-> IF clientId # Undefined THEN 1 ELSE 0]
    /\ requested = (IF clientId # Undefined THEN clientId ELSE Null)
    /\ onUserSelect = Null
    /\ autoRefreshPaused = FALSE
    /\ gradientCache = <<>>
    /\ phase = "created"
    /\ AnalyticsCreated

\* onMount up to its await
onMount ==
    /\ phase = "created"
    /\ phase' = "mounted"
    /\ UNCHANGED clientId
    /\ loadUsersStart("mount")
    /\ UNCHANGED <<users, unreadMessages, lastMessageTimes, activePlatform,
                   activeStatus, searchQuery, selectedUserId, refreshInterval,
                   filteredAndSortedUsers, onUserSelect, autoRefreshPaused>>
    /\ UNCHANGED <<analyticsVars, gradientCache>>

onDestroy ==
    /\ phase = "mounted"
    /\ phase' = "destroyed"
    /\ stopRefreshInterval
    /\ UNCHANGED <<users, unreadMessages, lastMessageTimes, activePlatform,
                   activeStatus, searchQuery, selectedUserId, isLoading, error,
                   filteredAndSortedUsers, loads, clientId, onUserSelect,
                   requested, autoRefreshPaused>>
    /\ UNCHANGED <<analyticsVars, gradientCache>>

\* The callback of setInterval
IntervalTick ==
    /\ refreshInterval # Null
    /\ UNCHANGED clientId
    /\ loadUsersStart("other")
    /\ UNCHANGED <<users, unreadMessages, lastMessageTimes, activePlatform,
                   activeStatus, searchQuery, selectedUserId, refreshInterval,
                   filteredAndSortedUsers, phase, onUserSelect,
                   autoRefreshPaused>>
    /\ UNCHANGED <<analyticsVars, gradientCache>>

\* export function refreshUsers, and the Retry button
refreshUsers ==
    /\ phase = "mounted"
    /\ UNCHANGED clientId
    /\ loadUsersStart("other")
    /\ UNCHANGED <<users, unreadMessages, lastMessageTimes, activePlatform,
                   activeStatus, searchQuery, selectedUserId, refreshInterval,
                   filteredAndSortedUsers, phase, onUserSelect,
                   autoRefreshPaused>>
    /\ UNCHANGED <<analyticsVars, gradientCache>>

\* $: if (clientId !== undefined) loadUsers(), run when the host assigns
\* another value to the prop clientId
clientIdChanged(value) ==
    /\ clientId' = value
    /\ IF value # Undefined
       THEN loadUsersStart("other")
       ELSE UNCHANGED <<isLoading, error, requested, loads>>

setClientId ==
    /\ phase = "mounted"
    /\ \E value \in (ClientIds \cup {Undefined}) \ {clientId} :
           clientIdChanged(value)
    /\ UNCHANGED <<users, unreadMessages, lastMessageTimes, activePlatform,
                   activeStatus, searchQuery, selectedUserId, refreshInterval,
                   filteredAndSortedUsers, phase, onUserSelect,
                   autoRefreshPaused>>
    /\ UNCHANGED <<analyticsVars, gradientCache>>

LoadResolve ==
    \E kind \in LoadKinds :
        /\ loads[kind] > 0
        /\ \E rows \in DirectoryLists : loadUsersResolve(kind, rows)

LoadReject == \E kind \in LoadKinds : loadUsersReject(kind)

\* handleUserSelect that clears the count in the list but not in the map
handleUserSelectListOnly(user) ==
    /\ selectedUserId' = user.id
    /\ onUserSelect' = user.id
    /\ IF user.unreadCount > 0
       THEN /\ UNCHANGED <<unreadMessages, lastMessageTimes, activePlatform,
                           activeStatus, searchQuery>>
            /\ Reactive(updateUserUnreadCount(users, user.id, 0))
       ELSE UNCHANGED <<users, unreadMessages, lastMessageTimes,
                        activePlatform, activeStatus, searchQuery,
                        filteredAndSortedUsers>>
    /\ UNCHANGED <<isLoading, error, refreshInterval, loads, phase, clientId,
                   requested, autoRefreshPaused>>
    /\ UNCHANGED <<analyticsVars, gradientCache>>

\* function handleUserSelect, with the reactive declarations that follow it
handleUserSelect(user) ==
    /\ selectedUserId' = user.id
    /\ onUserSelect' = user.id
    /\ IF user.unreadCount > 0
       THEN /\ unreadMessages' = setKey(unreadMessages, user.id, 0)
            /\ UNCHANGED <<lastMessageTimes, activePlatform, activeStatus,
                           searchQuery>>
            /\ Reactive(updateUserUnreadCount(users, user.id, 0))
       ELSE UNCHANGED <<users, unreadMessages, lastMessageTimes,
                        activePlatform, activeStatus, searchQuery,
                        filteredAndSortedUsers>>
    /\ UNCHANGED <<isLoading, error, refreshInterval, loads, phase, clientId,
                   requested, autoRefreshPaused>>
    /\ UNCHANGED <<analyticsVars, gradientCache>>

\* A click on a contact of the rendered list
UserClick ==
    /\ phase = "mounted" /\ ~isLoading /\ error = Null
    /\ \E i \in 1..Len(filteredAndSortedUsers) :
           handleUserSelect(filteredAndSortedUsers[i])

\* export function updateUnreadMessages; lastMessageTime is optional
updateUnreadMessages ==
    /\ phase = "mounted"
    /\ \E userId \in UserIds, count \in Unreads,
          lastMessageTime \in PushedTimes :
           /\ unreadMessages' = setKey(unreadMessages, userId, count)
           /\ lastMessageTimes' =
                  IF lastMessageTime # NoTime
                  THEN setKey(lastMessageTimes, userId, lastMessageTime)
                  ELSE lastMessageTimes
           /\ UNCHANGED <<activePlatform, activeStatus, searchQuery>>
           /\ Reactive(updateUserUnreadCount(users, userId, count))
    /\ UNCHANGED <<selectedUserId, isLoading, error, refreshInterval, loads,
                   phase, clientId, onUserSelect, requested,
                   autoRefreshPaused>>
    /\ UNCHANGED <<analyticsVars, gradientCache>>

pauseAutoRefresh ==
    /\ phase = "mounted"
    /\ stopRefreshInterval
    /\ autoRefreshPaused' = TRUE
    /\ UNCHANGED <<users, unreadMessages, lastMessageTimes, activePlatform,
                   activeStatus, searchQuery, selectedUserId, isLoading, error,
                   filteredAndSortedUsers, loads, phase, clientId,
                   onUserSelect, requested>>
    /\ UNCHANGED <<analyticsVars, gradientCache>>

resumeAutoRefresh ==
    /\ phase = "mounted"
    /\ startRefreshInterval
    /\ autoRefreshPaused' = FALSE
    /\ UNCHANGED <<users, unreadMessages, lastMessageTimes, activePlatform,
                   activeStatus, searchQuery, selectedUserId, isLoading, error,
                   filteredAndSortedUsers, loads, phase, clientId,
                   onUserSelect, requested>>
    /\ UNCHANGED <<analyticsVars, gradientCache>>

Next ==
    \/ onMount
    \/ onDestroy
    \/ IntervalTick
    \/ refreshUsers
    \/ setClientId
    \/ LoadResolve
    \/ LoadReject
    \/ UserClick
    \/ updateUnreadMessages
    \/ pauseAutoRefresh
    \/ resumeAutoRefresh

Spec == Init /\ [][Next]_vars

----------------------------------------------------------------------------
(* The comparator and the sort on lists of three contacts with every       *)
(* combination of group, unread count, last message time and name           *)

NoNames == [nickname |-> <<>>, name |-> <<>>, username |-> <<>>]

CmpNames ==
    {NoNames,
     [nickname |-> <<"b">>, name |-> <<"a">>, username |-> <<>>],
     [nickname |-> <<>>, name |-> <<>>, username |-> <<"A">>]}

CmpRows(id) ==
    {Row(id, n, <<>>, <<>>, "WhatsApp", "true", h) :
        n \in CmpNames, h \in {"true", "undefined"}}

CmpIds == {"1", "2", "3"}

\* No unread message, one, and the 5 of the documented example: three
\* counts, so that three contacts can differ pairwise.
CmpUnreads == {0, 1, 5}

PartialTimes(ids) ==
    UNION {[d -> Times] : d \in SUBSET ids}

InitCmp ==
    /\ users = <<>>
    /\ unreadMessages \in [CmpIds -> CmpUnreads]
    /\ lastMessageTimes \in PartialTimes(CmpIds)
    /\ activePlatform = Null
    /\ activeStatus = Null
    /\ searchQuery = <<>>
    /\ selectedUserId = Null
    /\ isLoading = TRUE
    /\ error = Null
    /\ refreshInterval = Null
    /\ filteredAndSortedUsers = <<>>
    /\ loads = [mount |-> 1, other |-> 0]
    /\ phase = "mounted"
    /\ clientId = Undefined
    /\ onUserSelect = Null
    /\ requested = Undefined
    /\ autoRefreshPaused = FALSE
    /\ gradientCache = <<>>
    /\ AnalyticsCreated

LoadCmp ==
    /\ loads.mount > 0
    /\ \E r1 \in CmpRows("1"), r2 \in CmpRows("2"), r3 \in CmpRows("3") :
           loadUsersResolve("mount", <<r1, r2, r3>>)

NextCmp == LoadCmp

SpecCmp == InitCmp /\ [][NextCmp]_vars

Sign(n) == IF n < 0 THEN 0 - 1 ELSE IF n > 0 THEN 1 ELSE 0

IsHumanRequired(u) == getUserStatus(u) = "human-required"

SameGroup(a, b) == IsHumanRequired(a) = IsHumanRequired(b)

Ids(list) == [i \in 1..Len(list) |-> list[i].id]

\* C1: in the visible list every human-required contact stands before
\* every contact that is not human-required.
C1_HumanRequiredFirst ==
    \A i, j \in 1..Len(filteredAndSortedUsers) :
        (/\ IsHumanRequired(filteredAndSortedUsers[i])
         /\ ~IsHumanRequired(filteredAndSortedUsers[j])) => i < j

\* C1 witness: the loaded list had a human-required contact behind one that
\* is not, with more unread messages on the latter, and both are visible.
C1_Witness ==
    /\ Len(users) = 3
    /\ ~IsHumanRequired(users[1]) /\ users[1].unreadCount > 0
    /\ IsHumanRequired(users[3]) /\ users[3].unreadCount = 0
    /\ Len(filteredAndSortedUsers) = 3
    /\ filteredAndSortedUsers[1].id = "3"

\* The signs of the comparator on all pairs of a list, row by row
SignTable(list) ==
    LET n == Len(list)
        signs == [k \in 1..(n * n) |->
                     Sign(sortCompare(list[((k - 1) \div n) + 1],
                                      list[((k - 1) % n) + 1]))]
    IN  IF signs = <<>> THEN <<>> ELSE signs

\* C3: the comparator is a consistent ordering: swapping the arguments
\* negates the sign; it is transitive (a before-or-tied b and b before-or-
\* tied c give a before c if either step is strict, and a tied with c if
\* both are ties); and sorting the sorted list again leaves it unchanged.
C3_ConsistentComparator ==
    LET n == Len(users)
        table == SignTable(users)
        cmp(i, j) == table[((i - 1) * n) + j]
        m == Len(filteredAndSortedUsers)
    IN  /\ \A i, j \in 1..n : cmp(i, j) = 0 - cmp(j, i)
        /\ \A i, j, k \in 1..n :
               LET ij == cmp(i, j)
                   jk == cmp(j, k)
               IN  (ij <= 0 /\ jk <= 0) =>
                       cmp(i, k) = (IF ij < 0 \/ jk < 0 THEN 0 - 1 ELSE 0)
        /\ sortUsers(filteredAndSortedUsers) = filteredAndSortedUsers
        /\ \A i \in 1..(m - 1) :
               sortCompare(filteredAndSortedUsers[i],
                           filteredAndSortedUsers[i + 1]) <= 0

\* C3 witness: three contacts loaded in descending order come out reversed,
\* so the sort went through a chain a < b < c.
C3_Witness ==
    /\ Len(users) = 3
    /\ sortCompare(users[3], users[2]) < 0
    /\ sortCompare(users[2], users[1]) < 0
    /\ Ids(filteredAndSortedUsers) = <<"3", "2", "1">>

\* C4: two contacts of the same group with the same unread count greater
\* than 0 and different last message times are ordered by the comparator
\* with the more recent one first.
C4_UnreadTieCascadesToTime ==
    \A a, b \in Range(users) :
        (/\ SameGroup(a, b)
         /\ a.unreadCount = b.unreadCount /\ a.unreadCount > 0
         /\ a.lastMessageTime # NoTime /\ b.lastMessageTime # NoTime
         /\ a.lastMessageTime > b.lastMessageTime)
            => sortCompare(a, b) < 0

\* C5: two contacts of the same group with equal unread count and the same
\* last message time are ordered by ascending comparison of their display
\* names.
C5_TimeTieCascadesToName ==
    \A a, b \in Range(users) :
        (/\ SameGroup(a, b)
         /\ a.unreadCount = b.unreadCount
         /\ a.lastMessageTime # NoTime
         /\ a.lastMessageTime = b.lastMessageTime)
            => Sign(sortCompare(a, b))
                   = Sign(localeCompare(displayName(a), displayName(b)))

ExampleLoaded ==
    /\ Len(users) = 3
    /\ users[1].unreadCount = 0 /\ getUserStatus(users[1]) = "online"
    /\ users[2].unreadCount = 5 /\ IsHumanRequired(users[2])
    /\ users[3].unreadCount = 0 /\ IsHumanRequired(users[3])

\* C6: within a group a contact with a strictly higher unread count is
\* ordered before one with a lower count (0 lowest), by the comparator and
\* in the visible list; the contacts 1 (unread 0, online), 2 (unread 5,
\* human-required), 3 (unread 0, human-required) come out as 2, 3, 1.
C6_HigherUnreadFirst ==
    /\ \A a, b \in Range(users) :
           (a.unreadCount > b.unreadCount /\ SameGroup(a, b))
               => sortCompare(a, b) < 0
    /\ \A i, j \in 1..Len(filteredAndSortedUsers) :
           (/\ filteredAndSortedUsers[i].unreadCount
                   > filteredAndSortedUsers[j].unreadCount
            /\ SameGroup(filteredAndSortedUsers[i], filteredAndSortedUsers[j]))
               => i < j
    /\ ExampleLoaded
           => Ids(filteredAndSortedUsers) = <<"2", "3", "1">>

\* C6 witness: the documented example has been loaded and sorted.
C6_Witness ==
    /\ ExampleLoaded
    /\ Ids(filteredAndSortedUsers) = <<"2", "3", "1">>

----------------------------------------------------------------------------
(* The platform and status predicates on lists of two contacts with every  *)
(* combination of stored platform and status columns, under every filter   *)

FilterPlatforms == {"WhatsApp", "WHATSAPP", "Whatsapp", "telegram"}

FilterNames ==
    {NoNames, [nickname |-> <<"A">>, name |-> <<>>, username |-> <<>>]}

FilterRows(id) ==
    {Row(id, n, <<>>, <<>>, p, a, h) :
        n \in FilterNames, p \in FilterPlatforms,
        a \in TriState, h \in TriState}

InitFilter ==
    /\ users = <<>>
    /\ unreadMessages = <<>>
    /\ lastMessageTimes = <<>>
    /\ activePlatform \in {Null, "WhatsApp", "Telegram"}
    /\ activeStatus \in {Null} \cup StatusFilters
    /\ searchQuery \in {<<>>, <<"a">>}
    /\ selectedUserId = Null
    /\ isLoading = TRUE
    /\ error = Null
    /\ refreshInterval = Null
    /\ filteredAndSortedUsers = <<>>
    /\ loads = [mount |-> 1, other |-> 0]
    /\ phase = "mounted"
    /\ clientId = Undefined
    /\ onUserSelect = Null
    /\ requested = Undefined
    /\ autoRefreshPaused = FALSE
    /\ gradientCache = <<>>
    /\ AnalyticsCreated

LoadFilter ==
    /\ loads.mount > 0
    /\ \E r1 \in FilterRows("1"), r2 \in FilterRows("2") :
           loadUsersResolve("mount", <<r1, r2>>)

NextFilter == LoadFilter

SpecFilter == InitFilter /\ [][NextFilter]_vars

VisibleIds == {filteredAndSortedUsers[i].id :
                  i \in 1..Len(filteredAndSortedUsers)}

\* C2: the derived status is one of the four statuses and is decided by
\* human_required first, then alara_status; loadUsers stores it in status.
C2_StatusTotal ==
    \A u \in Range(users) :
        /\ getUserStatus(u) \in statusConfig
        /\ u.human_required = "true" => getUserStatus(u) = "human-required"
        /\ (u.human_required # "true" /\ u.alara_status = "true")
               => getUserStatus(u) = "online"
        /\ (u.human_required # "true" /\ u.alara_status = "false")
               => getUserStatus(u) = "offline"
        /\ (u.human_required # "true" /\ u.alara_status = "undefined")
               => getUserStatus(u) = "no-info"
        /\ u.status = getUserStatus(u)

\* C2 witness: a contact with human_required true and alara_status false,
\* next to one without any status information, has been loaded.
C2_Witness ==
    /\ Len(users) = 2
    /\ users[1].human_required = "true" /\ users[1].alara_status = "false"
    /\ users[1].status = "human-required"
    /\ users[2].human_required = "undefined"
    /\ users[2].alara_status = "undefined"
    /\ users[2].status = "no-info"

TargetStatus ==
    CASE activeStatus = "Online" -> "online"
      [] activeStatus = "Offline" -> "offline"
      [] activeStatus = "Human Required" -> "human-required"
      [] OTHER -> "none"

\* C7: under an active status filter the visible list holds exactly the
\* contacts that pass the platform and text predicates and whose derived
\* status is the mapped one; a no-info contact is never visible then.
C7_StatusFilterExact ==
    activeStatus # Null =>
        /\ VisibleIds =
               {u.id : u \in {v \in Range(users) :
                   /\ platformMatch(v, activePlatform)
                   /\ searchMatch(v, searchQuery)
                   /\ getUserStatus(v) = TargetStatus}}
        /\ \A i \in 1..Len(filteredAndSortedUsers) :
               getUserStatus(filteredAndSortedUsers[i]) # "no-info"

\* C7 witness: under the Online filter an online contact is visible while a
\* contact with alara_status true but human_required true is filtered out.
C7_Witness ==
    /\ activeStatus = "Online"
    /\ Len(users) = 2
    /\ getUserStatus(users[1]) = "online"
    /\ users[2].alara_status = "true" /\ users[2].human_required = "true"
    /\ VisibleIds = {"1"}

\* C8: filtering the filtered list again with the same filters yields the
\* same list.
C8_FilterIdempotent ==
    LET once == filterUsers(users, activePlatform, activeStatus, searchQuery)
    IN  /\ filterUsers(once, activePlatform, activeStatus, searchQuery) = once
        /\ filterUsers(filteredAndSortedUsers, activePlatform, activeStatus,
                       searchQuery) = filteredAndSortedUsers

\* C8 witness: the filter removed the first of two loaded contacts and kept
\* the second.
C8_Witness ==
    /\ Len(users) = 2
    /\ Ids(filteredAndSortedUsers) = <<"2">>
    /\ activePlatform # Null /\ activeStatus # Null

FoldPlatform(p) ==
    CASE p \in {"WhatsApp", "whatsapp", "WHATSAPP", "Whatsapp"} -> "whatsapp"
      [] p \in {"Telegram", "telegram", "TELEGRAM"} -> "telegram"
      [] p \in {"Instagram", "instagram", "INSTAGRAM"} -> "instagram"
      [] OTHER -> p

\* C9: under a platform filter a contact is visible (the other predicates
\* permitting) if and only if its stored platform is the selected platform
\* in any casing; without a platform filter every contact passes.
C9_PlatformAnyCasing ==
    \A u \in Range(users) :
        platformMatch(u, activePlatform) <=>
            (activePlatform = Null
                \/ FoldPlatform(u.platform) = FoldPlatform(activePlatform))

----------------------------------------------------------------------------
(* The text predicate on lists of two contacts with every combination of   *)
(* present and absent text fields, under queries with and without blanks   *)

SearchRows(id) ==
    {Row(id, [nickname |-> n, name |-> m, username |-> u], ph, e,
         "WhatsApp", "true", "false") :
        n \in {<<>>, <<"A", "n">>}, m \in {<<>>, <<"B">>},
        u \in {<<>>, <<"b", "n">>}, ph \in {<<>>, <<"1">>},
        e \in {<<>>, <<"a">>}}

SearchQueries ==
    {<<>>, <<" ">>, <<" ", " ">>, <<"b">>, <<"N", " ", "b">>,
     <<" ", "a", "N", " ">>, <<"n", " ", " ", "b">>, <<"1", " ", "a">>,
     <<"n", " ", "1">>}

InitSearch ==
    /\ users = <<>>
    /\ unreadMessages = <<>>
    /\ lastMessageTimes = <<>>
    /\ activePlatform = Null
    /\ activeStatus = Null
    /\ searchQuery \in SearchQueries
    /\ selectedUserId = Null
    /\ isLoading = TRUE
    /\ error = Null
    /\ refreshInterval = Null
    /\ filteredAndSortedUsers = <<>>
    /\ loads = [mount |-> 1, other |-> 0]
    /\ phase = "mounted"
    /\ clientId = Undefined
    /\ onUserSelect = Null
    /\ requested = Undefined
    /\ autoRefreshPaused = FALSE
    /\ gradientCache = <<>>
    /\ AnalyticsCreated

LoadSearch ==
    /\ loads.mount > 0
    /\ \E r1 \in SearchRows("1"), r2 \in SearchRows("2") :
           loadUsersResolve("mount", <<r1, r2>>)

NextSearch == LoadSearch

SpecSearch == InitSearch /\ [][NextSearch]_vars

IsBlank(q) == \A i \in 1..Len(q) : q[i] = " "

\* The query without its leading and trailing blanks, in lower case
TrimmedLower(q) ==
    LET first == CHOOSE i \in 1..Len(q) :
                     q[i] # " " /\ \A k \in 1..(i - 1) : q[k] = " "
        last == CHOOSE i \in 1..Len(q) :
                    q[i] # " " /\ \A k \in (i + 1)..Len(q) : q[k] = " "
    IN  [i \in 1..(last - first + 1) |-> ToLowerChar(q[first + i - 1])]

\* The present fields of a contact, each followed by a blank, in lower case
RECURSIVE FieldsWithBlank(_)
FieldsWithBlank(fields) ==
    IF fields = <<>> THEN <<>>
    ELSE (IF Head(fields) = <<>> THEN <<>>
          ELSE [i \in 1..Len(Head(fields)) |-> ToLowerChar(Head(fields)[i])]
                   \o <<" ">>)
             \o FieldsWithBlank(Tail(fields))

JoinedLower(u) ==
    LET t == FieldsWithBlank(
                 <<u.nickname, u.name, u.username, u.phone, u.email>>)
    IN  IF t = <<>> THEN <<>> ELSE SubSeq(t, 1, Len(t) - 1)

IsSubstring(q, t) ==
    \E off \in 0..(Len(t) - Len(q)) :
        \A k \in 1..Len(q) : t[off + k] = q[k]

\* C10: with a query that is not blank a contact is visible if and only if
\* the trimmed lower-case query is a substring of the lower-case, space-
\* joined present fields nickname, name, username, phone, email; a blank or
\* empty query filters nothing out.
C10_TextMatch ==
    VisibleIds =
        {u.id : u \in {v \in Range(users) :
            IsBlank(searchQuery)
                \/ IsSubstring(TrimmedLower(searchQuery), JoinedLower(v))}}

\* C10 witness: the query " aN " came in with blanks around it and in mixed
\* case, and matched the contact with nickname "An" but not the other one.
C10_Witness ==
    /\ searchQuery = <<" ", "a", "N", " ">>
    /\ Len(users) = 2
    /\ users[1].nickname = <<"A", "n">> /\ users[2].nickname = <<>>
    /\ VisibleIds = {"1"}

\* C10 second case: the query "N b" spans the blank that joins the nickname
\* and the username when the name between them is absent.
C10_WitnessJoin ==
    /\ searchQuery = <<"N", " ", "b">>
    /\ Len(users) = 2
    /\ users[1].nickname = <<"A", "n">> /\ users[1].name = <<>>
    /\ users[1].username = <<"b", "n">>
    /\ "1" \in VisibleIds

----------------------------------------------------------------------------
(* The component: selection, polling and reloads                           *)

\* The unread count a list shows for a contact; 0 - 1 when it is not listed
shownUnread(list, id) ==
    IF \E j \in 1..Len(list) : list[j].id = id
    THEN (CHOOSE u \in Range(list) : u.id = id).unreadCount
    ELSE 0 - 1

\* C11: after handleUserSelect(contact) the unread count of the contact is
\* 0 in the overlay map, in users and in the rendered list, onUserSelect
\* was called with the contact, selectedUserId is its id, and the unread
\* count of every other contact is what it was, in the map and in users.
C11_SelectClearsUnread ==
    [][\A i \in 1..Len(filteredAndSortedUsers) :
           LET user == filteredAndSortedUsers[i]
           IN  handleUserSelect(user) =>
                   /\ unreadOf(unreadMessages', user.id) = 0
                   /\ shownUnread(users', user.id) = 0
                   /\ shownUnread(filteredAndSortedUsers', user.id) = 0
                   /\ onUserSelect' = user.id
                   /\ selectedUserId' = user.id
                   /\ Ids(users') = Ids(users)
                   /\ \A id \in UserIds \ {user.id} :
                          /\ shownUnread(users', id) = shownUnread(users, id)
                          /\ unreadOf(unreadMessages', id) =
                                 unreadOf(unreadMessages, id)]_vars

\* C11 witness: contact "1" was selected while it had an unread message;
\* its count is 0 in the map and in both lists, and contact "2" still has
\* its unread message.
C11_Witness ==
    /\ selectedUserId = "1" /\ onUserSelect = "1"
    /\ "1" \in DOMAIN unreadMessages /\ unreadMessages["1"] = 0
    /\ shownUnread(users, "1") = 0
    /\ shownUnread(filteredAndSortedUsers, "1") = 0
    /\ shownUnread(users, "2") = 1
    /\ unreadOf(unreadMessages, "2") = 1

\* C12: once onDestroy has run no poll timer of the component is active, so
\* that no poll-triggered loadUsers starts afterwards.
C12_PollingStoppedOnTeardown ==
    phase = "destroyed" => refreshInterval = Null

\* C13: from pauseAutoRefresh until the next resumeAutoRefresh no poll timer
\* is active, so that no timer-driven reload starts, also when
\* pauseAutoRefresh was called while the mount-time load was in flight.
C13_PausedUntilResumed ==
    autoRefreshPaused => refreshInterval = Null

\* C14: every change of clientId, to any value, starts a loadUsers for the
\* new value at once.
C14_ClientIdChangeReloads ==
    [][clientId' # clientId =>
           /\ InFlight' = InFlight + 1
           /\ requested' = clientId']_vars

\* C15: a fetch failure of loadUsers sets the error message and ends the
\* loading state; nothing is thrown on, so that after the failure of the
\* mount-time load onMount goes on to start the timer; and a timer that
\* runs keeps running, so that a later tick retries.
C15_FetchFailureContained ==
    [][\A kind \in LoadKinds :
           loadUsersReject(kind) =>
               /\ error' # Null
               /\ ~isLoading'
               /\ users' = <<>>
               /\ refreshInterval # Null => refreshInterval' # Null
               /\ kind = "mount" => refreshInterval' # Null
               /\ InFlight' < MaxLoads]_vars

\* C15 witness: a load has failed, the error is shown instead of the list,
\* and the timer runs with no load in flight: the next tick retries.
C15_Witness ==
    /\ phase = "mounted"
    /\ error # Null /\ ~isLoading /\ users = <<>>
    /\ refreshInterval # Null
    /\ InFlight = 0

----------------------------------------------------------------------------
(* Analytics panel: the queries on the table messages                      *)

\* 24 * 60 * 60 * 1000 ms, in minutes
DayMinutes == 24 * 60

\* .limit(10) of getRecentActivity
FeedLimit == 10

\* A row of the table messages; an absent time is NoTime, an absent chat or
\* end-user identifier is Null, response tells whether a response payload
\* is present.
Message(id, time, response_time, response, chat_id, end_user_id, client_id) ==
    [id |-> id, time |-> time, response_time |-> response_time,
     response |-> response, chat_id |-> chat_id,
     end_user_id |-> end_user_id, client_id |-> client_id]

\* if (clientId !== null) query = query.eq("client_id", clientId)
scoped(rows, cid) ==
    IF cid # Null THEN {m \in rows : m.client_id = cid} ELSE rows

\* .gte("time", Date.now() - 24h); a null time passes no comparison
sinceYesterday(rows, now) ==
    {m \in rows : m.time # NoTime /\ m.time >= now - DayMinutes}

\* data.reduce((sum, msg) => sum + diffMinutes, 0)
RECURSIVE totalMinutes(_)
totalMinutes(data) ==
    IF data = {} THEN 0
    ELSE LET msg == CHOOSE m \in data : TRUE
         IN  (msg.response_time - msg.time) + totalMinutes(data \ {msg})

\* Math.round(num / den) for den > 0: the nearest integer, a half goes up
round(num, den) == (2 * num + den) \div (2 * den)

\* getAverageResponseTime with Math.floor in the place of Math.round
getAverageResponseTimeFloor(rows, cid, now) ==
    LET data == {m \in sinceYesterday(scoped(rows, cid), now) :
                     m.response_time # NoTime}
    IN  IF data = {} THEN 0
        ELSE (10 * totalMinutes(data)) \div Cardinality(data)

\* getAverageResponseTime, in tenths of a minute:
\* Math.round((totalMinutes / data.length) * 10) / 10
getAverageResponseTime(rows, cid, now) ==
    LET data == {m \in sinceYesterday(scoped(rows, cid), now) :
                     m.response_time # NoTime}
    IN  IF data = {} THEN 0
        ELSE round(10 * totalMinutes(data), Cardinality(data))

\* getCompletionRate, first query: [...new Set(totalChats.map(chat_id))]
uniqueChats(rows, cid, now) ==
    {m.chat_id : m \in {x \in sinceYesterday(scoped(rows, cid), now) :
                            x.chat_id # Null}}

\* getCompletionRate, second query
uniqueCompletedChats(rows, cid, now) ==
    {m.chat_id : m \in {x \in sinceYesterday(scoped(rows, cid), now) :
                            x.chat_id # Null /\ x.response}}

\* The rate with Math.floor in the place of Math.round
completionRateFloor(completed, total) == (100 * completed) \div total

\* Math.round((uniqueCompletedChats.length / uniqueChats.length) * 100)
completionRate(completed, total) == round(100 * completed, total)

\* getTotalChats without the client filter of lines 885-887
getTotalChatsAllClients(rows, cid, now) ==
    Cardinality(uniqueChats(rows, Null, now))

getTotalChats(rows, cid, now) == Cardinality(uniqueChats(rows, cid, now))

\* getUniqueUsers that counts the rows fetched, not the distinct identifiers
getUniqueUsersRows(rows, cid, now) ==
    Cardinality({x \in sinceYesterday(scoped(rows, cid), now) :
                    x.end_user_id # Null})

getUniqueUsers(rows, cid, now) ==
    Cardinality({m.end_user_id :
                    m \in {x \in sinceYesterday(scoped(rows, cid), now) :
                               x.end_user_id # Null}})

\* The projection of a row to an item of the feed; new Date(null) is the
\* epoch, time 0.
ActivityItem(msg) ==
    [id |-> msg.id,
     type |-> IF msg.response THEN "response" ELSE "message",
     title |-> IF msg.response THEN "Bot responded"
               ELSE "New message received",
     time |-> IF msg.time = NoTime THEN 0 ELSE msg.time,
     chat_id |-> msg.chat_id]

\* ORDER BY time DESC: nulls come first, and rows of equal time come in an
\* order the backend chooses (here by ascending or by descending id).
Ties == {"asc", "desc"}

Before(a, b, tie) ==
    IF a.time = b.time
    THEN IF tie = "asc" THEN a.id < b.id ELSE a.id > b.id
    ELSE IF a.time = NoTime THEN TRUE
    ELSE IF b.time = NoTime THEN FALSE
    ELSE a.time > b.time

\* .order("time", {ascending: false}).limit(limit)
RECURSIVE orderByTimeDesc(_, _, _)
orderByTimeDesc(rows, tie, limit) ==
    IF rows = {} \/ limit = 0 THEN <<>>
    ELSE LET first == CHOOSE a \in rows :
                          \A b \in rows : b = a \/ Before(a, b, tie)
         IN  <<first>> \o orderByTimeDesc(rows \ {first}, tie, limit - 1)

getRecentActivity(rows, cid, tie) ==
    LET data == orderByTimeDesc(scoped(rows, cid), tie, FeedLimit)
    IN  [i \in 1..Len(data) |-> ActivityItem(data[i])]

----------------------------------------------------------------------------
(* Analytics panel: the component                                          *)

MaxChanges == 1
MaxAnalyticsLoads == 1

\* The table messages with its counters
backend == <<messages, nextId, changes>>

\* Date.now() at the queries; the runs of the model are short against 24h
Now == 2000

\* payload.new of a DELETE notification is an empty object
NoRow == Message(0, NoTime, NoTime, FALSE, Null, Null, Undefined)

\* The payload of a change: the row after it and the row before it
Payload(eventType, new, old) ==
    [eventType |-> eventType, new |-> new, old |-> old]

\* A loadAnalytics call in flight.  stage "all": the four queries of
\* Promise.all are awaited; "total" and "completed": the first and the
\* second query of getCompletionRate is awaited.  The other fields are the
\* local constants the call holds.
newLoad(kind) ==
    [kind |-> kind, stage |-> "all", responseTimeData |-> 0, chatsData |-> 0,
     usersData |-> 0, activityData |-> <<>>, uniqueChats |-> 0]

removeAt(seq, i) == SubSeq(seq, 1, i - 1) \o SubSeq(seq, i + 1, Len(seq))

\* function startRealTimeUpdates
startRealTimeUpdates == updateInterval' = "timer"

\* function setupRealtimeSubscription
setupRealtimeSubscription == realtimeSubscription' = "subscribed"

\* loadAnalytics up to its first await
loadAnalyticsStart(kind) ==
    /\ Len(analyticsLoads) < MaxAnalyticsLoads
    /\ analyticsLoads' = Append(analyticsLoads, newLoad(kind))

\* loadAnalytics has returned: the call leaves the loads in flight, and
\* onMount, which awaited the mount-time call, goes on (lines 748-749).
afterLoadAnalytics(i) ==
    /\ analyticsLoads' = removeAt(analyticsLoads, i)
    /\ IF analyticsLoads[i].kind = "mount"
       THEN startRealTimeUpdates /\ setupRealtimeSubscription
       ELSE UNCHANGED <<updateInterval, realtimeSubscription>>

\* Promise.all resolves: the four results are held, and getCompletionRate
\* sends its first query.
allResolved(i, now, tie) ==
    /\ analyticsLoads[i].stage = "all"
    /\ analyticsLoads' =
           [analyticsLoads EXCEPT ![i] =
               [@ EXCEPT
                   !.stage = "total",
                   !.responseTimeData =
                       getAverageResponseTime(messages, analyticsClientId, now),
                   !.chatsData =
                       getTotalChats(messages, analyticsClientId, now),
                   !.usersData =
                       getUniqueUsers(messages, analyticsClientId, now),
                   !.activityData =
                       getRecentActivity(messages, analyticsClientId, tie)]]
    /\ UNCHANGED <<analytics, isConnected, lastUpdate, updateInterval,
                   realtimeSubscription, analyticsClientId, backend,
                   recomputeTimeouts, channel, analyticsPhase>>
    /\ UNCHANGED <<contactVars, realtimeLog>>

\* loadAnalytics, lines 767-776: the snapshot is replaced as a whole
loadAnalyticsCommit(i, rate) ==
    /\ analytics' =
           [avgResponseTime |-> analyticsLoads[i].responseTimeData,
            completionRate |-> rate,
            totalChats |-> analyticsLoads[i].chatsData,
            uniqueUsers |-> analyticsLoads[i].usersData,
            recentActivity |-> analyticsLoads[i].activityData]
    /\ lastUpdate' = "hh:mm"
    /\ isConnected' = TRUE
    /\ afterLoadAnalytics(i)
    /\ UNCHANGED <<analyticsClientId, backend, recomputeTimeouts,
                   channel, analyticsPhase>>
    /\ UNCHANGED <<contactVars, realtimeLog>>

\* The first query of getCompletionRate resolves: without a chat the rate
\* is 0 and the snapshot is assigned, otherwise the second query is sent.
totalResolved(i, now) ==
    /\ analyticsLoads[i].stage = "total"
    /\ LET total == Cardinality(uniqueChats(messages, analyticsClientId, now))
       IN  IF total = 0
           THEN loadAnalyticsCommit(i, 0)
           ELSE /\ analyticsLoads' =
                       [analyticsLoads EXCEPT ![i] =
                           [@ EXCEPT !.stage = "completed",
                                     !.uniqueChats = total]]
                /\ UNCHANGED <<analytics, isConnected, lastUpdate,
                               updateInterval, realtimeSubscription,
                               analyticsClientId, backend,
                               recomputeTimeouts, channel, analyticsPhase>>
                /\ UNCHANGED <<contactVars, realtimeLog>>

\* The second query of getCompletionRate resolves
completedResolved(i, now) ==
    /\ analyticsLoads[i].stage = "completed"
    /\ loadAnalyticsCommit(i,
           completionRate(
               Cardinality(uniqueCompletedChats(messages, analyticsClientId,
                                                now)),
               analyticsLoads[i].uniqueChats))

\* A catch block that puts the empty snapshot on display
loadAnalyticsFailedClears(i) ==
    /\ isConnected' = FALSE
    /\ analytics' = EmptySnapshot
    /\ afterLoadAnalytics(i)
    /\ UNCHANGED <<lastUpdate, analyticsClientId, backend,
                   recomputeTimeouts, channel, analyticsPhase>>
    /\ UNCHANGED <<contactVars, realtimeLog>>

\* A query of the call fails: the catch block of loadAnalytics
loadAnalyticsFailed(i) ==
    /\ isConnected' = FALSE
    /\ afterLoadAnalytics(i)
    /\ UNCHANGED <<analytics, lastUpdate, analyticsClientId, backend,
                   recomputeTimeouts, channel, analyticsPhase>>
    /\ UNCHANGED <<contactVars, realtimeLog>>

\* handleRealtimeUpdate without the check of lines 975-977
handleRealtimeUpdateUnchecked(payload) ==
    /\ recomputeTimeouts' = recomputeTimeouts + 1
    /\ analytics' =
           IF payload.eventType = "INSERT"
           THEN [analytics EXCEPT
                    !.recentActivity =
                        <<ActivityItem(payload.new)>>
                            \o SubSeq(@, 1, IF Len(@) < 9 THEN Len(@) ELSE 9)]
           ELSE analytics

\* handleRealtimeUpdate that keeps the whole previous feed behind the new
\* item
handleRealtimeUpdateNoSlice(payload) ==
    IF analyticsClientId # Null /\ payload.new.client_id # analyticsClientId
    THEN UNCHANGED <<analytics, recomputeTimeouts>>
    ELSE /\ recomputeTimeouts' = recomputeTimeouts + 1
         /\ analytics' =
                IF payload.eventType = "INSERT"
                THEN [analytics EXCEPT
                         !.recentActivity = <<ActivityItem(payload.new)>> \o @]
                ELSE analytics

\* handleRealtimeUpdate that puts the new item behind the previous ones
handleRealtimeUpdateAppend(payload) ==
    IF analyticsClientId # Null /\ payload.new.client_id # analyticsClientId
    THEN UNCHANGED <<analytics, recomputeTimeouts>>
    ELSE /\ recomputeTimeouts' = recomputeTimeouts + 1
         /\ analytics' =
                IF payload.eventType = "INSERT"
                THEN [analytics EXCEPT
                         !.recentActivity =
                             SubSeq(@, 1, IF Len(@) < 9 THEN Len(@) ELSE 9)
                                 \o <<ActivityItem(payload.new)>>]
                ELSE analytics

\* handleRealtimeUpdate that also counts the chat of an inserted row
handleRealtimeUpdateCounts(payload) ==
    IF analyticsClientId # Null /\ payload.new.client_id # analyticsClientId
    THEN UNCHANGED <<analytics, recomputeTimeouts>>
    ELSE /\ recomputeTimeouts' = recomputeTimeouts + 1
         /\ analytics' =
                IF payload.eventType = "INSERT"
                THEN [analytics EXCEPT
                         !.totalChats = @ + 1,
                         !.recentActivity =
                             <<ActivityItem(payload.new)>>
                                 \o SubSeq(@, 1, IF Len(@) < 9 THEN Len(@)
                                                 ELSE 9)]
                ELSE analytics

\* function handleRealtimeUpdate
handleRealtimeUpdate(payload) ==
    IF analyticsClientId # Null /\ payload.new.client_id # analyticsClientId
    THEN UNCHANGED <<analytics, recomputeTimeouts>>
    ELSE /\ recomputeTimeouts' = recomputeTimeouts + 1
         /\ analytics' =
                IF payload.eventType = "INSERT"
                THEN [analytics EXCEPT
                         !.recentActivity =
                             <<ActivityItem(payload.new)>>
                                 \o SubSeq(@, 1, IF Len(@) < 9 THEN Len(@)
                                                 ELSE 9)]
                ELSE analytics

\* The realtime server sends a change of the table to the subscriber.  The
\* filter the subscription asks for when clientId is set (lines 957-959)
\* is left to the server, and the server of the model does not apply it:
\* a row of another tenant reaches the callback, which is the case the
\* check of line 975 is there for.
notify(payload) ==
    IF realtimeSubscription = "subscribed"
    THEN channel' = Append(channel, payload)
    ELSE UNCHANGED channel

\* The users of the session: none, the super admin, an admin of client c1
CurrentUsers == {Null, "alara_admin", "client_admin"}

\* The rows other parties write into the table messages: a message of an
\* end user of client c1, and one of client c2
NewMessages ==
    {Message(0, 1000, NoTime, FALSE, "a", "u", "c1"),
     Message(0, 1000, NoTime, FALSE, "c", "v", "c2")}

\* onMount of the analytics panel, up to its await
analyticsOnMount ==
    /\ analyticsPhase = "created"
    /\ analyticsPhase' = "mounted"
    /\ \E currentUser \in CurrentUsers :
           IF currentUser = Null
           THEN /\ isConnected' = FALSE
                /\ UNCHANGED <<analyticsClientId, analyticsLoads>>
           ELSE /\ analyticsClientId' =
                       (IF currentUser = "alara_admin" THEN Null ELSE "c1")
                /\ loadAnalyticsStart("mount")
                /\ UNCHANGED isConnected
    /\ UNCHANGED <<analytics, lastUpdate, updateInterval, realtimeSubscription,
                   backend, recomputeTimeouts, channel>>
    /\ UNCHANGED <<contactVars, realtimeLog>>

\* onDestroy of the analytics panel; after unsubscribe() no notification
\* reaches the callback
analyticsOnDestroy ==
    /\ analyticsPhase = "mounted"
    /\ analyticsPhase' = "destroyed"
    /\ updateInterval' = Null
    /\ realtimeSubscription' =
           (IF realtimeSubscription # Null THEN "unsubscribed" ELSE Null)
    /\ channel' = <<>>
    /\ UNCHANGED <<analytics, isConnected, lastUpdate, analyticsClientId,
                   backend, analyticsLoads, recomputeTimeouts>>
    /\ UNCHANGED <<contactVars, realtimeLog>>

\* The callback of setInterval(..., 30000)
UpdateTick ==
    /\ updateInterval # Null
    /\ loadAnalyticsStart("other")
    /\ UNCHANGED <<analytics, isConnected, lastUpdate, updateInterval,
                   realtimeSubscription, analyticsClientId, backend,
                   recomputeTimeouts, channel, analyticsPhase>>
    /\ UNCHANGED <<contactVars, realtimeLog>>

\* The callback of setTimeout(..., 2000)
RecomputeTimeout ==
    /\ recomputeTimeouts > 0
    /\ recomputeTimeouts' = recomputeTimeouts - 1
    /\ loadAnalyticsStart("other")
    /\ UNCHANGED <<analytics, isConnected, lastUpdate, updateInterval,
                   realtimeSubscription, analyticsClientId, backend,
                   channel, analyticsPhase>>
    /\ UNCHANGED <<contactVars, realtimeLog>>

AllResolve ==
    \E i \in 1..Len(analyticsLoads), tie \in Ties : allResolved(i, Now, tie)

TotalResolve ==
    \E i \in 1..Len(analyticsLoads) : totalResolved(i, Now)

CompletedResolve ==
    \E i \in 1..Len(analyticsLoads) : completedResolved(i, Now)

QueryFail ==
    \E i \in 1..Len(analyticsLoads) : loadAnalyticsFailed(i)

\* The subscription callback (lines 961-964) gets the next notification
RealtimeDeliver ==
    /\ channel # <<>>
    /\ realtimeSubscription = "subscribed"
    /\ realtimeLog' = realtimeLog + 1
    /\ handleRealtimeUpdate(Head(channel))
    /\ channel' = Tail(channel)
    /\ UNCHANGED <<isConnected, lastUpdate, updateInterval,
                   realtimeSubscription, analyticsClientId, backend,
                   analyticsLoads, analyticsPhase>>
    /\ UNCHANGED contactVars

\* Another party inserts a row
insertMessage(row) ==
    /\ changes < MaxChanges
    /\ changes' = changes + 1
    /\ nextId' = nextId + 1
    /\ LET inserted == [row EXCEPT !.id = nextId, !.time = @ + nextId]
       IN  /\ messages' = messages \cup {inserted}
           /\ notify(Payload("INSERT", inserted, NoRow))
    /\ UNCHANGED <<analytics, isConnected, lastUpdate, updateInterval,
                   realtimeSubscription, analyticsClientId, analyticsLoads,
                   recomputeTimeouts, analyticsPhase>>
    /\ UNCHANGED <<contactVars, realtimeLog>>

InsertMessage == \E row \in NewMessages : insertMessage(row)

\* The bot answers a message: the row gets its response
AnswerMessage ==
    /\ changes < MaxChanges
    /\ changes' = changes + 1
    /\ \E m \in messages :
           /\ ~m.response
           /\ LET answered == [m EXCEPT !.response = TRUE,
                                        !.response_time = m.time + 5]
              IN  /\ messages' = (messages \ {m}) \cup {answered}
                  /\ notify(Payload("UPDATE", answered, m))
    /\ UNCHANGED <<analytics, isConnected, lastUpdate, updateInterval,
                   realtimeSubscription, analyticsClientId, nextId,
                   analyticsLoads, recomputeTimeouts, analyticsPhase>>
    /\ UNCHANGED <<contactVars, realtimeLog>>

\* A row is deleted
DeleteMessage ==
    /\ changes < MaxChanges
    /\ changes' = changes + 1
    /\ \E m \in messages :
           /\ messages' = messages \ {m}
           /\ notify(Payload("DELETE", NoRow, m))
    /\ UNCHANGED <<analytics, isConnected, lastUpdate, updateInterval,
                   realtimeSubscription, analyticsClientId, nextId,
                   analyticsLoads, recomputeTimeouts, analyticsPhase>>
    /\ UNCHANGED <<contactVars, realtimeLog>>

\* The contact panel as constructed, without a clientId
ContactCreated ==
    /\ users = <<>>
    /\ unreadMessages = <<>>
    /\ lastMessageTimes = <<>>
    /\ activePlatform = Null
    /\ activeStatus = Null
    /\ searchQuery = <<>>
    /\ selectedUserId = Null
    /\ isLoading = TRUE
    /\ error = Null
    /\ refreshInterval = Null
    /\ filteredAndSortedUsers = <<>>
    /\ loads = [mount |-> 0, other |-> 0]
    /\ phase = "created"
    /\ clientId = Undefined
    /\ onUserSelect = Null
    /\ requested = Null
    /\ autoRefreshPaused = FALSE
    /\ gradientCache = <<>>

\* The tables the panel is created on: without a message, or with one
\* unanswered message of client c1
StoredMessages == {{}, {Message(1, 1001, NoTime, FALSE, "a", "u", "c1")}}

InitAnalytics ==
    /\ ContactCreated
    /\ AnalyticsDeclared
    /\ messages \in StoredMessages
    /\ nextId = Cardinality(messages) + 1
    /\ changes = 0

NextAnalytics ==
    \/ analyticsOnMount
    \/ analyticsOnDestroy
    \/ UpdateTick
    \/ RecomputeTimeout
    \/ AllResolve
    \/ TotalResolve
    \/ CompletedResolve
    \/ QueryFail
    \/ RealtimeDeliver
    \/ InsertMessage
    \/ AnswerMessage
    \/ DeleteMessage

SpecAnalytics == InitAnalytics /\ [][NextAnalytics]_vars

----------------------------------------------------------------------------
(* The analytics panel on a table that holds ten messages already: one     *)
(* more makes the feed overflow.  Other parties only insert.               *)

HistoryChats ==
    <<"h1", "h2", "h3", "h4", "h5", "h6", "h7", "h8", "h9", "h10">>

History ==
    {Message(i, 900 + i, NoTime, FALSE, HistoryChats[i], "u", "c1") :
        i \in 1..Len(HistoryChats)}

InitFeed ==
    /\ ContactCreated
    /\ AnalyticsDeclared
    /\ messages = History
    /\ nextId = Len(HistoryChats) + 1
    /\ changes = 0

NextFeed ==
    \/ analyticsOnMount
    \/ analyticsOnDestroy
    \/ UpdateTick
    \/ RecomputeTimeout
    \/ AllResolve
    \/ TotalResolve
    \/ CompletedResolve
    \/ QueryFail
    \/ RealtimeDeliver
    \/ InsertMessage

SpecFeed == InitFeed /\ [][NextFeed]_vars

----------------------------------------------------------------------------
(* The metrics of one loadAnalytics call on every table of up to four      *)
(* messages                                                                 *)

\* What the row with a given id can be, besides absent
MetricRows(id) ==
    IF id = 1
    THEN {Message(1, 1000, 1005, TRUE, "a", "u", "c1")}
    ELSE IF id = 2
    THEN {Message(2, 1000, 1015, TRUE, "b", "u", "c1"),
          Message(2, 1000, 1006, TRUE, "a", Null, "c1"),
          Message(2, 1000, NoTime, FALSE, "b", "w", "c1")}
    ELSE IF id = 3
    THEN {Message(3, 1001, 1002, TRUE, "c", "v", "c2"),
          Message(3, 100, 130, TRUE, "d", "x", "c1"),
          Message(3, NoTime, 1010, FALSE, Null, "u", "c1"),
          Message(3, 1001, NoTime, FALSE, "d", "x", "c1"),
          Message(3, 1001, NoTime, FALSE, Null, "w", "c1")}
    ELSE {Message(4, 1002, 1002, TRUE, "a", "u", "c1"),
          Message(4, 1002, NoTime, FALSE, "a", "u", "c2"),
          Message(4, 1002, NoTime, FALSE, "e", "u", "c1")}

\* The row with a given id, or no such row
MetricOptions(id) == {{}} \cup {{m} : m \in MetricRows(id)}

MetricTables ==
    {r1 \cup r2 \cup r3 \cup r4 :
        r1 \in MetricOptions(1), r2 \in MetricOptions(2),
        r3 \in MetricOptions(3), r4 \in MetricOptions(4)}

InitMetrics ==
    /\ ContactCreated
    /\ analytics = EmptySnapshot
    /\ isConnected = TRUE
    /\ lastUpdate = "--:--"
    /\ updateInterval = Null
    /\ realtimeSubscription = Null
    /\ analyticsClientId \in {Null, "c1"}
    /\ analyticsLoads = <<newLoad("mount")>>
    /\ recomputeTimeouts = 0
    /\ channel = <<>>
    /\ realtimeLog = 0
    /\ analyticsPhase = "mounted"
    /\ messages \in MetricTables
    /\ nextId = 5
    /\ changes = 0

NextMetrics ==
    \/ AllResolve
    \/ TotalResolve
    \/ CompletedResolve

SpecMetrics == InitMetrics /\ [][NextMetrics]_vars

----------------------------------------------------------------------------
(* Analytics panel: failures, the feed and the tenant check                *)

FeedIds == [i \in 1..Len(analytics.recentActivity) |->
               analytics.recentActivity[i].id]

\* C16: a fetch error in a loadAnalytics call, at whichever query, ends
\* the call, sets isConnected to false, leaves every field of the
\* displayed snapshot and lastUpdate as they were, and does not stop the
\* poll timer; after the mount-time call onMount goes on to start it.
C16_FetchErrorKeepsSnapshot ==
    [][\A i \in 1..Len(analyticsLoads) :
           loadAnalyticsFailed(i) =>
               /\ isConnected' = FALSE
               /\ analytics' = analytics
               /\ lastUpdate' = lastUpdate
               /\ Len(analyticsLoads') = Len(analyticsLoads) - 1
               /\ updateInterval # Null => updateInterval' # Null
               /\ analyticsLoads[i].kind = "mount" => updateInterval' # Null
      ]_vars

\* C16 witness: a snapshot with one chat was loaded, a later refresh has
\* failed: the indicator is degraded, the snapshot is still displayed and
\* the timer runs.
C16_Witness ==
    /\ analyticsPhase = "mounted"
    /\ isConnected = FALSE
    /\ analytics.totalChats = 1 /\ Len(analytics.recentActivity) = 1
    /\ lastUpdate = "hh:mm"
    /\ updateInterval # Null
    /\ analyticsLoads = <<>>

\* C17: the feed never holds more than 10 entries.
C17_FeedAtMostTen ==
    Len(analytics.recentActivity) <= 10

\* C17 witness: the last reload saw the ten messages of the table and
\* filled the feed; then message 11 was pushed, and the push dropped the
\* oldest entry.
C17_Witness ==
    /\ analytics.totalChats = 10
    /\ Len(analytics.recentActivity) = 10
    /\ FeedIds[1] = 11 /\ FeedIds[10] = 2

\* C18: with clientId set, a notification whose new row carries another
\* client identifier changes neither the feed nor a metric and schedules
\* no recompute.
C18_ForeignPushIgnored ==
    [][(/\ analyticsClientId # Null
        /\ channel # <<>>
        /\ Head(channel).new.client_id # analyticsClientId
        /\ RealtimeDeliver) =>
           /\ analytics' = analytics
           /\ recomputeTimeouts' = recomputeTimeouts
           /\ analyticsLoads' = analyticsLoads]_vars

\* C18 witness: the panel of client c1 has loaded its snapshot and has
\* subscribed; the one change of the table since its creation is the
\* insert of a message of client c2, and the callback has run for it: the
\* feed holds no item of that message and no recompute is pending.
C18_Witness ==
    /\ analyticsPhase = "mounted" /\ analyticsClientId = "c1"
    /\ realtimeSubscription = "subscribed"
    /\ lastUpdate = "hh:mm" /\ analytics.totalChats = 1
    /\ changes = 1 /\ realtimeLog = 1
    /\ \E m \in messages : m.id = 2 /\ m.client_id = "c2"
    /\ FeedIds = <<1>>
    /\ channel = <<>>
    /\ recomputeTimeouts = 0 /\ analyticsLoads = <<>>

----------------------------------------------------------------------------
(* Analytics panel: the metrics                                            *)

\* The mount-time call has assigned the snapshot
MetricsLoaded == analyticsLoads = <<>> /\ lastUpdate = "hh:mm"

OwnRows(rows, cid) == {m \in rows : m.client_id = cid}

\* The snapshot a loadAnalytics call assigns on a table that does not
\* change during the call
SnapshotOf(rows, cid, tie) ==
    [avgResponseTime |-> getAverageResponseTime(rows, cid, Now),
     completionRate |->
         IF uniqueChats(rows, cid, Now) = {} THEN 0
         ELSE completionRate(
                  Cardinality(uniqueCompletedChats(rows, cid, Now)),
                  Cardinality(uniqueChats(rows, cid, Now))),
     totalChats |-> getTotalChats(rows, cid, Now),
     uniqueUsers |-> getUniqueUsers(rows, cid, Now),
     recentActivity |-> getRecentActivity(rows, cid, tie)]

InWindow(m) == m.time # NoTime /\ m.time >= Now - DayMinutes

\* C19: with a client identifier set, the snapshot is the one every table
\* with the same rows of that client gives, whatever rows of other clients
\* it holds; without one, the chats, the end users and the feed are those
\* of the rows of all clients.
C19_TenantScopedMetrics ==
    MetricsLoaded =>
        IF analyticsClientId # Null
        THEN \A other \in MetricTables :
                 OwnRows(other, analyticsClientId) =
                         OwnRows(messages, analyticsClientId)
                     => \E tie \in Ties :
                            analytics = SnapshotOf(other, analyticsClientId,
                                                   tie)
        ELSE /\ analytics.totalChats =
                    Cardinality({m.chat_id :
                        m \in {x \in messages :
                                  InWindow(x) /\ x.chat_id # Null}})
             /\ analytics.uniqueUsers =
                    Cardinality({m.end_user_id :
                        m \in {x \in messages :
                                  InWindow(x) /\ x.end_user_id # Null}})
             /\ Range(FeedIds) = {m.id : m \in messages}
             /\ \E tie \in Ties : analytics = SnapshotOf(messages, Null, tie)

\* C19 witness: the panel of client c1 on a table with message 1 of c1 and
\* message 3 of c2: one chat, one end user and one feed entry are shown.
C19_Witness ==
    /\ MetricsLoaded
    /\ analyticsClientId = "c1"
    /\ {m.id : m \in messages} = {1, 3}
    /\ \E m \in messages : m.id = 3 /\ m.client_id = "c2"
    /\ analytics.totalChats = 1 /\ analytics.uniqueUsers = 1
    /\ FeedIds = <<1>>
    /\ analytics.avgResponseTime = 50

\* The fetched rows that have a timestamp and a response timestamp
Qualifying ==
    {m \in messages :
        /\ analyticsClientId # Null => m.client_id = analyticsClientId
        /\ InWindow(m)
        /\ m.response_time # NoTime}

\* The sum of response_time - time over the qualifying rows with id <= k
RECURSIVE DiffSum(_)
DiffSum(k) ==
    IF k = 0 THEN 0
    ELSE (IF \E m \in Qualifying : m.id = k
          THEN LET m == CHOOSE x \in Qualifying : x.id = k
               IN  m.response_time - m.time
          ELSE 0) + DiffSum(k - 1)

\* C20: avgResponseTime, in tenths of a minute, is the tenth nearest to the
\* mean of response_time - time over the qualifying rows (a half goes up),
\* and 0 without a qualifying row; two rows with differences of 5 and 15
\* minutes give 10.0.
C20_AverageResponseTime ==
    MetricsLoaded =>
        LET n == Cardinality(Qualifying)
            sum == DiffSum(4)
            r == analytics.avgResponseTime
        IN  /\ n = 0 => r = 0
            /\ n > 0 => /\ 2 * n * r - n <= 20 * sum
                        /\ 20 * sum < 2 * n * r + n
            /\ {m.response_time - m.time : m \in Qualifying} = {5, 15}
                   /\ n = 2 => r = 100

\* C20 witness: the table holds a message answered after 5 minutes and one
\* answered after 15 minutes, and the snapshot shows 10.0.
C20_Witness ==
    /\ MetricsLoaded
    /\ {m.response_time - m.time : m \in messages} = {5, 15}
    /\ Cardinality(Qualifying) = 2
    /\ analytics.avgResponseTime = 100

\* C20 second case: differences of 5, 15, 1 and 0 minutes have the mean
\* 5.25, shown as 5.3.
C20_WitnessHalf ==
    /\ MetricsLoaded
    /\ Cardinality(Qualifying) = 4 /\ DiffSum(4) = 21
    /\ analytics.avgResponseTime = 53

\* The rows the metric queries select from: of the client when one is set,
\* with a time in the last 24 hours
Window ==
    {m \in messages :
        /\ analyticsClientId # Null => m.client_id = analyticsClientId
        /\ InWindow(m)}

ChatIdsUsed == {"a", "b", "c", "d", "e"}
EndUserIdsUsed == {"u", "v", "w", "x"}

\* T and C of the completion rate
ChatsInWindow == {c \in ChatIdsUsed : \E m \in Window : m.chat_id = c}
ChatsAnswered ==
    {c \in ChatsInWindow : \E m \in Window : m.chat_id = c /\ m.response}

\* C21: completionRate is the integer nearest to 100 * C / T (a half goes
\* up), where T counts the distinct chat ids of the window and C those of
\* them with an event of the window that has a response; it is 0 when T
\* is 0, and 25 for four chat ids of which one has a response.
C21_CompletionRate ==
    MetricsLoaded =>
        LET total == Cardinality(ChatsInWindow)
            completed == Cardinality(ChatsAnswered)
            r == analytics.completionRate
        IN  /\ total = 0 => r = 0
            /\ total > 0 => /\ 2 * total * r - total <= 200 * completed
                            /\ 200 * completed < 2 * total * r + total
            /\ total = 4 /\ completed = 1 => r = 25

\* C21 witness: four chats in the window, one of them answered, shown as
\* 25 percent.
C21_Witness ==
    /\ MetricsLoaded
    /\ Cardinality(ChatsInWindow) = 4 /\ Cardinality(ChatsAnswered) = 1
    /\ analytics.completionRate = 25

\* C21 second case: two of three chats answered, 66.67 percent shown as 67.
C21_WitnessUp ==
    /\ MetricsLoaded
    /\ Cardinality(ChatsInWindow) = 3 /\ Cardinality(ChatsAnswered) = 2
    /\ analytics.completionRate = 67

\* C22: after a refresh totalChats is the number of distinct chat ids and
\* uniqueUsers the number of distinct end-user ids among the events of the
\* window; a null identifier is not counted.
C22_DistinctCounts ==
    MetricsLoaded =>
        /\ analytics.totalChats = Cardinality(ChatsInWindow)
        /\ analytics.uniqueUsers =
               Cardinality({u \in EndUserIdsUsed :
                               \E m \in Window : m.end_user_id = u})

\* C22 witness: four events in the window, three of them of chat a and
\* one without a chat id, two of them of end user u and one without an
\* end-user id: one chat and two end users are shown.
C22_Witness ==
    /\ MetricsLoaded
    /\ Cardinality(Window) = 4
    /\ Cardinality({m \in Window : m.chat_id = "a"}) = 3
    /\ \E m \in Window : m.chat_id = Null
    /\ Cardinality({m \in Window : m.end_user_id = "u"}) = 2
    /\ \E m \in Window : m.end_user_id = Null
    /\ analytics.totalChats = 1 /\ analytics.uniqueUsers = 2

----------------------------------------------------------------------------
(* The contact panel: the avatars of the rendered list                      *)

\* Two of the colours and one of the angles of generateGradient
Colors == {"#fbbf24", "#4DE944"}
Angles == {0}

\* function generateGradient: the values Math.random can lead to; color2
\* is drawn again until it differs from color1
generateGradient ==
    {[angle |-> a, color1 |-> c1, color2 |-> c2] :
        a \in Angles,
        c1 \in Colors, c2 \in Colors} \
    {[angle |-> a, color1 |-> c, color2 |-> c] : a \in Angles, c \in Colors}

\* getUserGradient that generates a gradient at every call
getUserGradientNoCache(cache, userId, generated) ==
    [k \in DOMAIN cache \cup {userId} |->
        IF k = userId THEN generated ELSE cache[k]]

\* function getUserGradient: the Map after the call; the value returned
\* is its entry for userId.  generated is what generateGradient gives if
\* it is called.
getUserGradient(cache, userId, generated) ==
    IF userId \notin DOMAIN cache
    THEN [k \in DOMAIN cache \cup {userId} |->
             IF k = userId THEN generated ELSE cache[k]]
    ELSE cache

\* The Map after getUserGradient has been called for the contacts of list
\* from position i on
RECURSIVE renderAvatars(_, _, _, _)
renderAvatars(cache, list, i, generated) ==
    IF i > Len(list) THEN cache
    ELSE renderAvatars(
             getUserGradient(cache, list[i].id, generated[list[i].id]),
             list, i + 1, generated)

\* The each block of the template is rendered (lines 407-424): the style
\* attribute of every avatar calls getUserGradient
Render ==
    /\ phase = "mounted" /\ ~isLoading /\ error = Null
    /\ filteredAndSortedUsers # <<>>
    /\ \E generated \in [UserIds -> generateGradient] :
           gradientCache' =
               renderAvatars(gradientCache, filteredAndSortedUsers, 1,
                             generated)
    /\ UNCHANGED <<users, unreadMessages, lastMessageTimes, activePlatform,
                   activeStatus, searchQuery, selectedUserId, isLoading, error,
                   refreshInterval, filteredAndSortedUsers, loads, phase,
                   clientId, onUserSelect, requested, autoRefreshPaused>>
    /\ UNCHANGED analyticsVars

\* The component of a host that gives no clientId and calls none of the
\* exported functions but updateUnreadMessages
InitRender == Init /\ clientId = Undefined

NextRender ==
    \/ onMount
    \/ onDestroy
    \/ IntervalTick
    \/ LoadResolve
    \/ LoadReject
    \/ UserClick
    \/ updateUnreadMessages
    \/ Render

SpecRender == InitRender /\ [][NextRender]_vars

\* C23: a gradient, once in the cache for a contact id, stays as it is:
\* no step (reload, selection, overlay update, rendering, assignment of a
\* gradient to another id) removes or changes it, so every later
\* getUserGradient call for the id returns it.
C23_GradientAssignedOnce ==
    [][\A id \in DOMAIN gradientCache :
           /\ id \in DOMAIN gradientCache'
           /\ gradientCache'[id] = gradientCache[id]
           /\ \A g \in generateGradient :
                  getUserGradient(gradientCache', id, g)[id] =
                      gradientCache[id]]_vars

\* C23 witness: the two contacts have been rendered and have different
\* gradients; contact 2 has been selected since and a reload by the timer
\* is in flight.
C23_Witness ==
    /\ DOMAIN gradientCache = {"1", "2"}
    /\ gradientCache["1"] # gradientCache["2"]
    /\ selectedUserId = "2"
    /\ Len(users) = 2
    /\ loads.other > 0

----------------------------------------------------------------------------
(* Teardown and overlapping calls                                          *)

\* C24: after onDestroy of the analytics panel no poll interval, no
\* pending recompute timeout and no realtime subscription remains, and no
\* loadAnalytics call is started.
C24_NothingActiveAfterTeardown ==
    analyticsPhase = "destroyed" =>
        /\ updateInterval = Null
        /\ recomputeTimeouts = 0
        /\ realtimeSubscription # "subscribed"

\* C25: once the contact panel is destroyed, a fetch that settles does not
\* modify users, error or isLoading.
C25_LateResultDiscarded ==
    [][phase = "destroyed" =>
           users' = users /\ error' = error /\ isLoading' = isLoading]_vars

\* C26: a loadUsers call is started without waiting for the calls in
\* flight, and a call that resolves puts its own rows on display whatever
\* the list shows and whichever calls are still in flight: of two
\* overlapping calls the one that resolves last determines the list.
C26_LaterResolvingWins ==
    [][/\ \A kind \in LoadKinds, rows \in DirectoryLists :
              (loads'[kind] = loads[kind] - 1
                  /\ loadUsersResolve(kind, rows)) =>
                  /\ InFlight' = InFlight - 1
                  /\ Len(users') = Len(rows)
                  /\ \A i \in 1..Len(rows) :
                         /\ users'[i].id = rows[i].id
                         /\ users'[i].human_required = rows[i].human_required
       /\ refreshUsers => InFlight' = InFlight + 1 /\ users' = users
      ]_vars

\* C26 witness: the mount-time call set isLoading when it started and is
\* still in flight; isLoading is false and two contacts are displayed, so
\* a call that overlapped with it has resolved since.  Its rows are on
\* display until the mount-time call resolves and replaces them.
C26_Witness ==
    /\ phase = "mounted"
    /\ loads.mount = 1
    /\ ~isLoading /\ error = Null
    /\ Len(users) = 2

\* C27: a notification of an inserted row that passes the tenant check
\* makes, in the step of the callback, the new item the first of the feed,
\* followed by the first 9 previous items in their order; no loadAnalytics
\* call is started in that step but one more recompute is pending, and the
\* call is started when the timeout fires.
C27_PushPrependsBeforeRecompute ==
    [][/\ (/\ channel # <<>>
           /\ Head(channel).eventType = "INSERT"
           /\ \/ analyticsClientId = Null
              \/ Head(channel).new.client_id = analyticsClientId
           /\ RealtimeDeliver) =>
              LET old == analytics.recentActivity
                  new == analytics'.recentActivity
                  n == IF Len(old) < 9 THEN Len(old) ELSE 9
              IN  /\ Len(new) = n + 1
                  /\ new[1].id = Head(channel).new.id
                  /\ new[1].chat_id = Head(channel).new.chat_id
                  /\ new[1].time = Head(channel).new.time
                  /\ \A i \in 1..n : new[i + 1] = old[i]
                  /\ analyticsLoads' = analyticsLoads
                  /\ recomputeTimeouts' = recomputeTimeouts + 1
       /\ RecomputeTimeout =>
              /\ Len(analyticsLoads') = Len(analyticsLoads) + 1
              /\ recomputeTimeouts' = recomputeTimeouts - 1
      ]_vars

\* C27 witness: message 11 has been pushed onto the full feed of the last
\* reload; the metrics are still those of the ten messages, no call is in
\* flight and the recompute is pending.
C27_Witness ==
    /\ lastUpdate = "hh:mm" /\ analytics.totalChats = 10
    /\ FeedIds = <<11, 10, 9, 8, 7, 6, 5, 4, 3, 2>>
    /\ analyticsLoads = <<>>
    /\ recomputeTimeouts = 1

----------------------------------------------------------------------------
(* Push notifications and the snapshot                                     *)

\* The row a notification is about: the deleted row, or the row as it is
\* after the insert or update
rowOf(payload) ==
    IF payload.eventType = "DELETE" THEN payload.old ELSE payload.new

\* The notification belongs to the scope of the panel
InScope(payload) ==
    analyticsClientId = Null \/ rowOf(payload).client_id = analyticsClientId

\* C28: the callback schedules a recompute for every notification that
\* belongs to the scope of the panel, whatever its kind; without that no
\* loadAnalytics call follows from the notification.
C28_PushSchedulesRefresh ==
    [][(channel # <<>> /\ InScope(Head(channel)) /\ RealtimeDeliver) =>
           recomputeTimeouts' = recomputeTimeouts + 1]_vars

\* C29: the times of the feed are non-increasing from the first entry to
\* the last.
C29_FeedMostRecentFirst ==
    \A i \in 1..(Len(analytics.recentActivity) - 1) :
        analytics.recentActivity[i].time >=
            analytics.recentActivity[i + 1].time

\* The four metrics of a snapshot
Metrics(a) ==
    <<a.avgResponseTime, a.completionRate, a.totalChats, a.uniqueUsers>>

\* The step handles a push notification and leaves the metrics, the
\* indicator and the time of the last update as they are
PushFrame ==
    RealtimeDeliver =>
        /\ Metrics(analytics') = Metrics(analytics)
        /\ isConnected' = isConnected
        /\ lastUpdate' = lastUpdate

\* The step completes a loadAnalytics call: the call leaves the calls in
\* flight and every field of the snapshot is assigned from its results
Committed ==
    \E i \in 1..Len(analyticsLoads) :
        /\ analyticsLoads[i].stage \in {"total", "completed"}
        /\ analyticsLoads' = removeAt(analyticsLoads, i)
        /\ analytics'.avgResponseTime = analyticsLoads[i].responseTimeData
        /\ analytics'.totalChats = analyticsLoads[i].chatsData
        /\ analytics'.uniqueUsers = analyticsLoads[i].usersData
        /\ analytics'.recentActivity = analyticsLoads[i].activityData
        /\ lastUpdate' = "hh:mm"
        /\ isConnected' = TRUE

\* The step sets the indicator to degraded and nothing else of the display:
\* a call has failed, or onMount has found no user
Degraded ==
    /\ isConnected' = FALSE
    /\ analytics' = analytics /\ lastUpdate' = lastUpdate
    /\ \/ Len(analyticsLoads') = Len(analyticsLoads) - 1
       \/ /\ analyticsPhase = "created" /\ analyticsPhase' = "mounted"
          /\ analyticsLoads' = analyticsLoads

\* C30 as stated: handling a push leaves the four metrics, isConnected
\* and lastUpdate unchanged, and any of these six changes only in a step
\* that completes a loadAnalytics call and replaces all snapshot fields.
C30_OnlyLoadChangesDisplay ==
    [][/\ PushFrame
       /\ (\/ Metrics(analytics') # Metrics(analytics)
           \/ lastUpdate' # lastUpdate
           \/ isConnected' # isConnected) => Committed]_vars

\* C30 amended: handling a push leaves the six unchanged; the four metrics
\* and lastUpdate change only in a step that completes a loadAnalytics
\* call and replaces all snapshot fields, setting isConnected; isConnected
\* changes otherwise only to false, with the snapshot kept, when a call
\* fails or onMount finds no user.
C30_OnlyLoadChangesSnapshot ==
    [][/\ PushFrame
       /\ (\/ Metrics(analytics') # Metrics(analytics)
           \/ lastUpdate' # lastUpdate) => Committed
       /\ isConnected' # isConnected => Committed \/ Degraded]_vars

\* C30 witness: the panel loaded an empty table; message 1 has been
\* pushed since: it is in the feed, while the metrics, the indicator and
\* the time of the last update are those of the load.
C30_Witness ==
    /\ analyticsPhase = "mounted"
    /\ lastUpdate = "hh:mm" /\ isConnected
    /\ Metrics(analytics) = <<0, 0, 0, 0>>
    /\ FeedIds = <<1>>
    /\ realtimeLog = 1 /\ recomputeTimeouts = 1


----------------------------------------------------------------------------
(* Overlapping calls and what is on display                                *)

\* C31: whenever a loadUsers call resolves with rows, the error indicator
\* is null afterwards: no interleaving of a failing and a succeeding call
\* leaves a freshly loaded list on display together with the error of the
\* failed call.
C31_ErrorAgreesWithList ==
    [][LoadResolve => error' = Null]_vars


\* C32: the list and the overlay map agree: every contact of users has
\* the unread count that unreadMessages holds for its id, or 0 when the
\* map has no entry for it, after every load that completes, every
\* updateUnreadMessages and every handleUserSelect, in whichever order the
\* loads and the overlay updates happen.
C32_ListAgreesWithOverlay ==
    \A i \in 1..Len(users) :
        users[i].unreadCount = unreadOf(unreadMessages, users[i].id)

\* C32 witness: both contacts are on display with no call in flight;
\* contact "1" was selected while it had an unread message and shows 0,
\* contact "2" shows the count the host pushed for it.
C32_Witness ==
    /\ phase = "mounted" /\ InFlight = 0 /\ ~isLoading /\ error = Null
    /\ Ids(users) = <<"1", "2">>
    /\ selectedUserId = "1"
    /\ DOMAIN unreadMessages = {"1", "2"}
    /\ unreadMessages["1"] = 0 /\ users[1].unreadCount = 0
    /\ unreadMessages["2"] = 1 /\ users[2].unreadCount = 1


----------------------------------------------------------------------------
(* The analytics panel on a table whose only chat is answered, while       *)
(* other parties insert messages, with or without a response               *)

\* A row that is inserted with its response: handleRealtimeUpdate reads
\* payload.new.response of an INSERT (line 983)
AnsweredMessage == Message(0, 1000, 1020, TRUE, "b", "v", "c1")

InsertAnswered == insertMessage(AnsweredMessage)

RateMessages == {{Message(1, 1001, 1006, TRUE, "a", "u", "c1")}}

InitRate ==
    /\ ContactCreated
    /\ AnalyticsDeclared
    /\ messages \in RateMessages
    /\ nextId = 2
    /\ changes = 0

NextRate ==
    \/ analyticsOnMount
    \/ analyticsOnDestroy
    \/ UpdateTick
    \/ RecomputeTimeout
    \/ AllResolve
    \/ TotalResolve
    \/ CompletedResolve
    \/ QueryFail
    \/ RealtimeDeliver
    \/ InsertMessage
    \/ InsertAnswered

SpecRate == InitRate /\ [][NextRate]_vars

\* C33: the displayed completion rate is an integer between 0 and 100,
\* whatever is inserted between the first and the second query of
\* getCompletionRate: the completed chats counted by the second query
\* never exceed the chats counted by the first.
C33_RateWithinBounds ==
    analytics.completionRate \in 0..100


\* C34: the activity feed never holds two entries with the same event
\* id, however the full reloads and the notifications of inserted rows
\* interleave.
C34_FeedIdsDistinct ==
    \A i, j \in 1..Len(analytics.recentActivity) :
        i # j => analytics.recentActivity[i].id # analytics.recentActivity[j].id


\* C35: a loadAnalytics call that completes does not take out of the feed
\* an item whose row is in the table of the tenant: an item prepended on a
\* notification is replaced only by the result of a call that fetched the
\* feed after the insert, never by one that was in flight, with its feed
\* fetched already, when the notification was handled.
C35_PushedItemNotOverwritten ==
    [][\A k \in 1..Len(analytics.recentActivity) :
           LET item == analytics.recentActivity[k]
           IN  (/\ Len(analyticsLoads') < Len(analyticsLoads)
                /\ \E m \in scoped(messages', analyticsClientId) :
                       m.id = item.id)
               => \E j \in 1..Len(analytics'.recentActivity) :
                      analytics'.recentActivity[j].id = item.id]_vars

====
